---------------------------- MODULE Spec2Model ----------------------------
(***************************************************************************)
(* VU Studio Booking API.                                                  *)
(*                                                                         *)
(* Part II models the hold manager of the "Bookla-style" server variant    *)
(* (src/unnamed/part_002): the in-memory holds map, POST /public/hold,     *)
(* POST /public/hold/cancel, GET /public/availability, and POST /checkout  *)
(* with verifyAndConsumeHold.  Handlers run on the Node event loop: the    *)
(* synchronous part of a handler is one atomic step, and an `await` splits *)
(* a handler into two steps between which other handlers may run.          *)
(*                                                                         *)
(* Part I models the quote calculators of every server variant as pure     *)
(* operators over a request body.                                          *)
(*                                                                         *)
(* JavaScript numbers are modelled as records [nan, v]: either NaN or an   *)
(* integer.  Every comparison with NaN is false, as in IEEE 754.           *)
(* Times are whole milliseconds since the epoch; the process time zone is  *)
(* taken to be UTC.                                                        *)
(***************************************************************************)
EXTENDS Integers, Sequences, FiniteSets, TLC

\* ------------------------------------------------------------------------
\* JavaScript values
\* ------------------------------------------------------------------------

\* A JSON value of a request body: undefined (field absent), null, a number,
\* a string or a boolean.
Undef == [t |-> "undefined", n |-> 0, s |-> ""]
JNull == [t |-> "null", n |-> 0, s |-> ""]
JNum(k) == [t |-> "number", n |-> k, s |-> ""]
JStr(x) == [t |-> "string", n |-> 0, s |-> x]
JBool(b) == [t |-> "boolean", n |-> IF b THEN 1 ELSE 0, s |-> ""]

\* A JavaScript number: NaN or an integer.
NaN == [nan |-> TRUE, v |-> 0]
Int2Num(k) == [nan |-> FALSE, v |-> k]

\* Number(" 12 "): the numeric strings of the input alphabet; every other
\* string is not a numeral and converts to NaN.  Number("") is 0.
StringToNumber(x) ==
  CASE x = "" -> Int2Num(0)
    [] x = "0" -> Int2Num(0)
    [] x = "1" -> Int2Num(1)
    [] x = "2" -> Int2Num(2)
    [] x = "3" -> Int2Num(3)
    [] x = "4" -> Int2Num(4)
    [] x = "5" -> Int2Num(5)
    [] x = "6" -> Int2Num(6)
    [] x = "7" -> Int2Num(7)
    [] x = "-1" -> Int2Num(-1)
    [] OTHER -> NaN

\* Number(v) (ECMAScript ToNumber).
ToNumber(v) ==
  CASE v.t = "undefined" -> NaN
    [] v.t = "null" -> Int2Num(0)
    [] v.t = "boolean" -> Int2Num(v.n)
    [] v.t = "number" -> Int2Num(v.n)
    [] v.t = "string" -> StringToNumber(v.s)

\* ToBoolean(v): the truthiness test of `if (v)`, `!!v`, `v || d`.
Truthy(v) ==
  CASE v.t = "undefined" -> FALSE
    [] v.t = "null" -> FALSE
    [] v.t = "boolean" -> v.n = 1
    [] v.t = "number" -> v.n # 0
    [] v.t = "string" -> v.s # ""

\* a || d on JSON values.
OrElse(v, d) == IF Truthy(v) THEN v ELSE d

\* IEEE arithmetic and comparison on numbers.
NumAdd(a, b) == IF a.nan \/ b.nan THEN NaN ELSE Int2Num(a.v + b.v)
NumSub(a, b) == IF a.nan \/ b.nan THEN NaN ELSE Int2Num(a.v - b.v)
NumMul(a, b) == IF a.nan \/ b.nan THEN NaN ELSE Int2Num(a.v * b.v)
NumLt(a, b) == ~a.nan /\ ~b.nan /\ a.v < b.v
NumLe(a, b) == ~a.nan /\ ~b.nan /\ a.v <= b.v
NumGt(a, b) == NumLt(b, a)
\* a === b on numbers: NaN is not equal to itself.
NumStrictEq(a, b) == ~a.nan /\ ~b.nan /\ a.v = b.v
\* Math.max / Math.min: NaN if either argument is NaN.
MathMax(a, b) == IF a.nan \/ b.nan THEN NaN ELSE IF a.v >= b.v THEN a ELSE b
MathMin(a, b) == IF a.nan \/ b.nan THEN NaN ELSE IF a.v <= b.v THEN a ELSE b
\* Number.isFinite(x) for the numbers of the model.
IsFinite(a) == ~a.nan

\* function num(n, d = 0): Number(n) if finite, else d (an integer default).
num(v, d) == LET x == ToNumber(v) IN IF IsFinite(x) THEN x ELSE Int2Num(d)

\* String(v) for the values of the input alphabet.
NumeralOf(k) ==
  CASE k = -1 -> "-1" [] k = 0 -> "0" [] k = 1 -> "1" [] k = 2 -> "2"
    [] k = 3 -> "3" [] k = 4 -> "4" [] k = 5 -> "5" [] k = 6 -> "6"
    [] k = 7 -> "7" [] OTHER -> "<numeral>"
StringOf(v) ==
  CASE v.t = "undefined" -> "undefined"
    [] v.t = "null" -> "null"
    [] v.t = "boolean" -> (IF v.n = 1 THEN "true" ELSE "false")
    [] v.t = "number" -> NumeralOf(v.n)
    [] v.t = "string" -> v.s

\* String.prototype.toUpperCase / toLowerCase on the strings of the input
\* alphabet; a string without cased letters of the other case is unchanged.
toUpperCase(x) ==
  CASE x = "audio_only" -> "AUDIO_ONLY"
    [] x = "Audio_Only" -> "AUDIO_ONLY"
    [] x = "one_camera" -> "ONE_CAMERA"
    [] x = "music" -> "MUSIC"
    [] x = "podcast" -> "PODCAST"
    [] x = "none" -> "NONE"
    [] x = "None" -> "NONE"
    [] x = "any" -> "ANY"
    [] x = "true" -> "TRUE"
    [] x = "false" -> "FALSE"
    [] OTHER -> x
toLowerCase(x) ==
  CASE x = "NONE" -> "none"
    [] x = "None" -> "none"
    [] x = "ANY" -> "any"
    [] x = "Tala White" -> "tala white"
    [] x = "Floating" -> "floating"
    [] x = "TRUE" -> "true"
    [] x = "True" -> "true"
    [] x = "YES" -> "yes"
    [] x = "ON" -> "on"
    [] x = "FALSE" -> "false"
    [] x = "NO" -> "no"
    [] OTHER -> x

\* v.toUpperCase() / v.toLowerCase() is a TypeError unless v is a string.
MethodThrows(v) == v.t # "string"

\* ------------------------------------------------------------------------
\* Part I.  Quote calculators (every server variant)
\* ------------------------------------------------------------------------

MIN_HOURS == 2
MAX_HOURS == 6

\* What a calculator hands back.  hours and mode are reported by some
\* variants only (reportsHours); extraCamsSubtotal is a separate breakdown
\* entry in some variants only (separateExtraCams).  A calculator that
\* throws hands back Threw.
Quote(hrs, md, bs, es, xs, xc, pp, tot, cams, sep, rep) ==
  [threw |-> FALSE, hours |-> hrs, mode |-> md,
   baseSubtotal |-> bs, engineerSubtotal |-> es, extrasSession |-> xs,
   extraCamsSubtotal |-> xc, postProd |-> pp, total |-> tot, totalCams |-> cams,
   separateExtraCams |-> sep, reportsHours |-> rep]
Threw == [threw |-> TRUE, hours |-> NaN, mode |-> Undef,
   baseSubtotal |-> NaN, engineerSubtotal |-> NaN, extrasSession |-> NaN,
   extraCamsSubtotal |-> NaN, postProd |-> NaN, total |-> NaN, totalCams |-> NaN,
   separateExtraCams |-> FALSE, reportsHours |-> FALSE]

\* (flag ? fee : 0)
Fee(flag, fee) == IF Truthy(flag) THEN Int2Num(fee) ELSE Int2Num(0)
\* The four flat add-ons, summed in source order.
FlatAddOns(body) ==
  NumAdd(NumAdd(NumAdd(Fee(body.teleprompter, 25), Fee(body.remoteGuest, 10)),
                Fee(body.adClips5, 150)), Fee(body.mediaSdOrUsb, 50))

\* Math.max(1, peopleOnCamera, 1 + extraCams)
CamsFYI(people, extraCams) ==
  MathMax(MathMax(Int2Num(1), people), NumAdd(Int2Num(1), extraCams))

\* $200 for the first camera, $100 for each further one.
postProdTiered(cams) ==
  LET c == MathMax(Int2Num(0), IF IsFinite(cams) THEN cams ELSE Int2Num(0))
  IN IF NumStrictEq(c, Int2Num(0)) THEN Int2Num(0)
     ELSE NumAdd(Int2Num(200), NumMul(NumSub(c, Int2Num(1)), Int2Num(100)))

\* The inline form of the same tier: camsToEdit > 0 ? 200 + (n-1)*100 : 0.
PostProdFirstAddl(camsToEdit) ==
  IF NumGt(camsToEdit, Int2Num(0))
  THEN NumAdd(Int2Num(200), NumMul(NumSub(camsToEdit, Int2Num(1)), Int2Num(100)))
  ELSE Int2Num(0)

\* Lookup in { 0:0, 1:200, 2:250, 3:300, 4:350 } followed by `?? 0`.
POST_TIER(cams) ==
  IF cams.nan THEN Int2Num(0)
  ELSE CASE cams.v = 0 -> Int2Num(0)
         [] cams.v = 1 -> Int2Num(200)
         [] cams.v = 2 -> Int2Num(250)
         [] cams.v = 3 -> Int2Num(300)
         [] cams.v = 4 -> Int2Num(350)
         [] OTHER -> Int2Num(0)

\* Number(x) || d
NumberOr(x, d) == LET a == ToNumber(x) IN IF a.nan \/ a.v = 0 THEN d ELSE a

\* server.js computeQuote (first variant); src/unnamed/part_002 has the same
\* function text.
computeQuote_first(body) ==
  LET hours == MathMax(Int2Num(MIN_HOURS), num(body.hours, MIN_HOURS))
      rawMode == OrElse(body.mode, JStr("ONE_CAMERA"))
      mode == toUpperCase(rawMode.s)
      baseHourly == IF mode = "AUDIO_ONLY" THEN 45 ELSE 55
      baseSubtotal == NumMul(hours, Int2Num(baseHourly))
      engineerName == OrElse(body.engineer, OrElse(body.engineerChoice, JStr("Floating")))
      engineerHourly == IF engineerName = JStr("None") THEN 0 ELSE 20
      engineerSubtotal == NumMul(hours, Int2Num(engineerHourly))
      extraCams == MathMax(Int2Num(0), num(body.extraCameras, 0))
      extrasSession == NumAdd(FlatAddOns(body), NumMul(extraCams, Int2Num(25)))
      camsToEdit == MathMax(Int2Num(0), num(body.postProduction, 0))
      postProdSubtotal == PostProdFirstAddl(camsToEdit)
      peopleOnCamera == MathMax(Int2Num(1), num(body.peopleOnCamera, 1))
      totalCams == CamsFYI(peopleOnCamera, extraCams)
      total == NumAdd(NumAdd(NumAdd(baseSubtotal, engineerSubtotal), extrasSession),
                      postProdSubtotal)
  IN IF MethodThrows(rawMode) THEN Threw
     ELSE Quote(hours, JStr(mode), baseSubtotal, engineerSubtotal, extrasSession,
                Int2Num(0), postProdSubtotal, total, totalCams, FALSE, TRUE)

\* src/unnamed/part_002 computeQuote: the hold-manager variant.
computeQuote_hold(body) == computeQuote_first(body)

\* server.js computeTotals (discount variant).
computeTotals_discount(b) ==
  LET h0 == NumberOr(b.hours, Int2Num(0))
      h1 == IF Truthy(b.isFirstTime) /\ NumLt(h0, Int2Num(2)) THEN Int2Num(2) ELSE h0
      h2 == IF NumLt(h1, Int2Num(2)) THEN Int2Num(2) ELSE h1
      hours == IF NumGt(h2, Int2Num(6)) THEN Int2Num(6) ELSE h2
      mode == toUpperCase(StringOf(OrElse(b.mode, JStr("ONE_CAMERA"))))
      baseRate == IF mode = "AUDIO_ONLY" THEN 45 ELSE 55
      baseIncludedCams == IF mode = "AUDIO_ONLY" THEN 0 ELSE 1
      extraCameras == MathMax(Int2Num(0), NumberOr(b.extraCameras, Int2Num(0)))
      totalCams == NumAdd(Int2Num(baseIncludedCams), extraCameras)
      engineerChoice == toLowerCase(StringOf(OrElse(b.engineerChoice, JStr("any"))))
      wantsEngineer == engineerChoice # "none"
      baseSubtotal == NumMul(Int2Num(baseRate), hours)
      engineerSubtotal == IF wantsEngineer THEN NumMul(Int2Num(20), hours) ELSE Int2Num(0)
      x0 == IF NumGt(extraCameras, Int2Num(0)) THEN NumMul(extraCameras, Int2Num(25))
            ELSE Int2Num(0)
      x1 == NumAdd(x0, Fee(b.remoteGuest, 10))
      x2 == NumAdd(x1, Fee(b.teleprompter, 25))
      x3 == NumAdd(x2, Fee(b.adClips5, 150))
      extrasSession == NumAdd(x3, Fee(b.mediaSdOrUsb, 50))
      camsForPost == MathMin(Int2Num(4), NumberOr(b.postProduction, totalCams))
      postProd == POST_TIER(camsForPost)
      total == NumAdd(NumAdd(NumAdd(baseSubtotal, engineerSubtotal), extrasSession), postProd)
  IN Quote(hours, JStr(mode), baseSubtotal, engineerSubtotal, extrasSession,
           Int2Num(0), postProd, total, totalCams, FALSE, FALSE)

\* server.js toBool.
toBool(v) ==
  CASE v.t = "boolean" -> v.n = 1
    [] v.t = "string" -> toLowerCase(v.s) \in {"true", "1", "yes", "on"}
    [] OTHER -> Truthy(v)
FeeBool(flag, fee) == IF toBool(flag) THEN Int2Num(fee) ELSE Int2Num(0)

\* server.js computeTotals (fixed post-production variant).
computeTotals_fixed(b) ==
  LET hours == MathMax(Int2Num(2), ToNumber(OrElse(b.hours, JNum(2))))
      rawMode == OrElse(b.mode, JStr("ONE_CAMERA"))
      mode == toUpperCase(rawMode.s)
      baseRate == IF mode = "AUDIO_ONLY" THEN 45 ELSE 55
      baseSubtotal == NumMul(Int2Num(baseRate), hours)
      rawChoice == OrElse(b.engineerChoice, JStr("any"))
      engineerChoice == toLowerCase(rawChoice.s)
      wantsEngineer == engineerChoice # "none"
      engineerSubtotal == IF wantsEngineer THEN NumMul(Int2Num(20), hours) ELSE Int2Num(0)
      extraCameras == MathMax(Int2Num(0), ToNumber(OrElse(b.extraCameras, JNum(0))))
      x0 == IF NumGt(extraCameras, Int2Num(0)) THEN NumMul(extraCameras, Int2Num(25))
            ELSE Int2Num(0)
      x1 == NumAdd(x0, FeeBool(b.remoteGuest, 10))
      x2 == NumAdd(x1, FeeBool(b.teleprompter, 25))
      x3 == NumAdd(x2, FeeBool(b.adClips5, 150))
      extrasSession == NumAdd(x3, FeeBool(b.mediaSdOrUsb, 50))
      baseIncludedCams == IF mode = "AUDIO_ONLY" THEN 0 ELSE 1
      peopleOnCamera == MathMax(Int2Num(1), ToNumber(OrElse(b.peopleOnCamera, JNum(1))))
      totalCams == NumAdd(NumAdd(Int2Num(baseIncludedCams), extraCameras),
                          MathMax(Int2Num(0), NumSub(peopleOnCamera, Int2Num(1))))
      camsForPost == MathMax(Int2Num(0), ToNumber(OrElse(b.postProduction, JNum(0))))
      postProd == POST_TIER(camsForPost)
      total == NumAdd(NumAdd(NumAdd(baseSubtotal, engineerSubtotal), extrasSession), postProd)
  IN IF MethodThrows(rawMode) \/ MethodThrows(rawChoice) THEN Threw
     ELSE Quote(hours, JStr(mode), baseSubtotal, engineerSubtotal, extrasSession,
                Int2Num(0), postProd, total, totalCams, FALSE, FALSE)

\* src/unnamed/part_000 computeQuote (linear post-production variant).
computeQuote_linear(body) ==
  LET hours == MathMax(Int2Num(MIN_HOURS), num(body.hours, 2))
      mode == OrElse(body.mode, JStr("ONE_CAMERA"))
      baseSubtotal == NumMul(hours, Int2Num(55))
      rawChoice == OrElse(body.engineerChoice, JStr("any"))
      engineerChoice == toLowerCase(rawChoice.s)
      engineerHourly == IF engineerChoice = "none" THEN 0 ELSE 20
      engineerSubtotal == NumMul(hours, Int2Num(engineerHourly))
      extraCameras == MathMax(Int2Num(0), num(body.extraCameras, 0))
      extraCamsSubtotal == NumMul(extraCameras, Int2Num(100))
      extrasSession == FlatAddOns(body)
      postProduction == MathMax(Int2Num(0), num(body.postProduction, 0))
      postProdSubtotal == IF NumStrictEq(postProduction, Int2Num(0)) THEN Int2Num(0)
                          ELSE NumMul(postProduction, Int2Num(200))
      peopleOnCamera == MathMax(Int2Num(1), num(body.peopleOnCamera, 1))
      totalCams == MathMax(MathMax(Int2Num(1), NumAdd(Int2Num(1), extraCameras)), peopleOnCamera)
      total == NumAdd(NumAdd(NumAdd(NumAdd(baseSubtotal, engineerSubtotal),
                      extraCamsSubtotal), extrasSession), postProdSubtotal)
  IN IF MethodThrows(rawChoice) THEN Threw
     ELSE Quote(hours, mode, baseSubtotal, engineerSubtotal, extrasSession,
                extraCamsSubtotal, postProdSubtotal, total, totalCams, TRUE, TRUE)

\* src/unnamed/part_000 computeQuote (webhook variant, studio pricing engine).
computeQuote_webhook(body) ==
  LET hours == MathMax(Int2Num(MIN_HOURS), num(body.hours, MIN_HOURS))
      mode == OrElse(body.mode, JStr("ONE_CAMERA"))
      baseSubtotal == NumMul(hours, Int2Num(55))
      engName == OrElse(body.engineer, OrElse(body.engineerChoice, JStr("Floating")))
      engineerHourly == IF engName = JStr("None") THEN 0 ELSE 20
      engineerSubtotal == NumMul(hours, Int2Num(engineerHourly))
      extraCams == MathMax(Int2Num(0), num(body.extraCameras, 0))
      extrasSession == NumAdd(FlatAddOns(body), NumMul(extraCams, Int2Num(25)))
      camsToEdit == MathMax(Int2Num(0), num(body.postProduction, 0))
      postProdSubtotal == PostProdFirstAddl(camsToEdit)
      peopleOnCamera == MathMax(Int2Num(1), num(body.peopleOnCamera, 1))
      totalCams == CamsFYI(peopleOnCamera, extraCams)
      total == NumAdd(NumAdd(NumAdd(baseSubtotal, engineerSubtotal), extrasSession),
                      postProdSubtotal)
  IN Quote(hours, mode, baseSubtotal, engineerSubtotal, extrasSession,
           Int2Num(0), postProdSubtotal, total, totalCams, FALSE, TRUE)

\* The calculators that report extra cameras separately and price
\* post-production with postProdTiered differ in the hours ceiling and in
\* whether the base rate depends on the mode.
SeparateTiered(body, maxHours, audioRate) ==
  LET floor == MathMax(Int2Num(MIN_HOURS), num(body.hours, 2))
      hours == IF maxHours > 0 THEN MathMin(Int2Num(maxHours), floor) ELSE floor
      rawMode == OrElse(body.mode, JStr("ONE_CAMERA"))
      mode == toUpperCase(rawMode.s)
      baseHourly == IF mode = "AUDIO_ONLY" THEN audioRate ELSE 55
      baseSubtotal == NumMul(hours, Int2Num(baseHourly))
      rawChoice == OrElse(body.engineerChoice, JStr("any"))
      engChoice == toLowerCase(rawChoice.s)
      engineerHourly == IF engChoice = "none" THEN 0 ELSE 20
      engineerSubtotal == NumMul(hours, Int2Num(engineerHourly))
      extrasSession == FlatAddOns(body)
      extraCameras == MathMax(Int2Num(0), num(body.extraCameras, 0))
      extraCamsSubtotal == NumMul(extraCameras, Int2Num(25))
      postProduction == MathMax(Int2Num(0), num(body.postProduction, 0))
      postProd == postProdTiered(postProduction)
      peopleOnCamera == MathMax(Int2Num(1), num(body.peopleOnCamera, 1))
      totalCams == MathMax(MathMax(Int2Num(1), NumAdd(Int2Num(1), extraCameras)), peopleOnCamera)
      total == NumAdd(NumAdd(NumAdd(NumAdd(baseSubtotal, engineerSubtotal),
                      extrasSession), extraCamsSubtotal), postProd)
  IN IF MethodThrows(rawMode) \/ MethodThrows(rawChoice) THEN Threw
     ELSE Quote(hours, JStr(mode), baseSubtotal, engineerSubtotal, extrasSession,
                extraCamsSubtotal, postProd, total, totalCams, TRUE, TRUE)

\* src/unnamed/part_001 computeStudioQuote (validating variant): 2..6 hours.
computeStudioQuote(body) == SeparateTiered(body, MAX_HOURS, 45)

\* src/unnamed/part_001 computeQuote (second variant): $55/hr for every mode.
computeQuote_second(body) == SeparateTiered(body, 0, 55)

\* src/unnamed/part_003 computeQuote.
computeQuote_tiered(body) == SeparateTiered(body, 0, 45)

\* ------------------------------------------------------------------------
\* Part II.  Hold manager (src/unnamed/part_002)
\* ------------------------------------------------------------------------

HOLD_TTL_SECONDS == 600
SLOT_STEP_MIN == 15
MIN_LEAD_DAYS == 3
BLOCK_SUNDAYS == TRUE
MsPerMinute == 60000
MsPerDay == 86400000

\* Bounds of the model.
MaxIds == 2        \* holds ever created (randomId() calls)
MaxTicks == 1      \* clock advances
MaxPending == 1    \* checkouts awaiting stripe.checkout.sessions.create

ROOMS == <<"The Studio", "The Lobby", "The Box", "The Middle", "The Back Room">>
\* The room field absent from the body.
NoRoom == "<undefined>"
\* The holdId field absent from the body.
NoHold == 0

\* "HH:MM" strings are modelled by their two digit groups; a string that
\* does not have the shape \d{2}:\d{2} is BadTime.
Time(h, m) == [hh |-> h, mm |-> m]
BadTime == [hh |-> -1, mm |-> -1]
\* "YYYY-MM-DD" strings are modelled by the day number of the date they
\* name (days since 1970-01-01, a Thursday); a string that does not have
\* the shape \d{4}-\d{2}-\d{2} is BadDate.
BadDate == -1

\* SERVICES[0]: the service every id resolves to in the model.
Service == [minHours |-> 2, maxHours |-> 6, start |-> Time(10, 0), end |-> Time(19, 0)]

VARIABLES
  holds,      \* the holds Map: holdId -> [room, date, startTime, hours, expiresAt]
  nextId,     \* number of ids randomId() has produced so far, plus one
  now,        \* Date.now(), in ms
  busy,       \* what the external calendar reports as busy: set of [room, date, start, end]
  pending,    \* checkouts suspended at `await stripe.checkout.sessions.create`
  consumed,   \* history: holdIds for which verifyAndConsumeHold returned ok
  resp,       \* the last HTTP response sent
  qbody,      \* Part II: the request body handed to a quote calculator
  qvariant,   \* Part II: the calculator variant that ran last
  quote       \* Part II: the quote it returned

vars == <<holds, nextId, now, busy, pending, consumed, resp, qbody, qvariant, quote>>
holdVars == <<holds, nextId, now, busy, pending, consumed, resp>>
quoteVars == <<qbody, qvariant, quote>>

\* ---- state after construction ----

NoResp == [op |-> "none", status |-> 0, error |-> "", holdId |-> NoHold, slots |-> {}]
Resp(op, status, error, id, slots) ==
  [op |-> op, status |-> status, error |-> error, holdId |-> id, slots |-> slots]

NoQuote == Threw
NoBody == [hours |-> Undef, mode |-> Undef, engineerChoice |-> Undef, engineer |-> Undef,
           extraCameras |-> Undef, peopleOnCamera |-> Undef, postProduction |-> Undef,
           teleprompter |-> Undef, remoteGuest |-> Undef, adClips5 |-> Undef,
           mediaSdOrUsb |-> Undef, isFirstTime |-> Undef]

\* ---- utilities ----

\* purgeExpiredHolds deleting only what is strictly past its expiresAt.
purgeExpiredHolds_strictlyPast(hs, t) ==
  [id \in {i \in DOMAIN hs : ~(hs[i].expiresAt < t)} |-> hs[id]]

\* purgeExpiredHolds(): drop every hold with expiresAt <= now.
purgeExpiredHolds(hs, t) ==
  LET keep == {id \in DOMAIN hs : ~(hs[id].expiresAt <= t)}
  IN [id \in keep |-> hs[id]]

\* parseHM(hm) # null: shape \d{2}:\d{2}, hour at most 23, minute at most 59.
parseHM(hm) ==
  /\ hm.hh \in 0..99
  /\ hm.mm \in 0..99
  /\ ~(hm.hh > 23 \/ hm.mm > 59)

\* hmToDateLocal(dateYMD, hm).getTime(), for a hm that parses.
hmToDateLocal(dateYMD, hm) ==
  Int2Num(dateYMD * MsPerDay + hm.hh * 60 * MsPerMinute + hm.mm * MsPerMinute)

\* addMinutes(d, mins).getTime(); an Invalid Date has time NaN.
addMinutes(d, mins) == NumAdd(d, NumMul(mins, Int2Num(MsPerMinute)))

\* overlaps testing only whether b starts inside a.
overlaps_startInside(aStart, aEnd, bStart, bEnd) ==
  NumLt(aStart, bStart) /\ NumLt(bStart, aEnd)

overlaps(aStart, aEnd, bStart, bEnd) == NumLt(aStart, bEnd) /\ NumLt(bStart, aEnd)

\* new Date(y, m-1, d).getDay() === 0; day 0 is a Thursday.
isSunday(dateYMD) == (dateYMD + 4) % 7 = 0

\* (chosen - today) / 86400000 >= minDays, today being local midnight.
enforceLeadTime(dateYMD, minDays, t) == dateYMD - (t \div MsPerDay) >= minDays

\* getBusyIntervals(room, date): what the calendar reports for the room and
\* date.  The function in the source is a stub for the calendar fetch and
\* reports the empty list; the calendar is part of the environment.
getBusyIntervals(room, date) == {i \in busy : i.room = room /\ i.date = date}

\* collide finding only the holds that start when the request starts.
collide_sameStart(hs, room, date, start, end) ==
  \E id \in DOMAIN hs :
    /\ ~(hs[id].room # room \/ hs[id].date # date)
    /\ NumStrictEq(hmToDateLocal(date, hs[id].startTime), start)

\* The collision test of POST /public/hold against the stored holds.
collide(hs, room, date, start, end) ==
  \E id \in DOMAIN hs :
    /\ ~(hs[id].room # room \/ hs[id].date # date)
    /\ LET hstart == hmToDateLocal(date, hs[id].startTime)
           hend == addMinutes(hstart, NumMul(hs[id].hours, Int2Num(60)))
       IN overlaps(start, end, hstart, hend)

\* verifyAndConsumeHold without the comparison of hours.
verifyAndConsumeHold_ignoringHours(hs, t, a) ==
  LET live == purgeExpiredHolds(hs, t)
  IN IF a.holdId = NoHold THEN [ok |-> TRUE, error |-> "", holds |-> live]
     ELSE IF a.holdId \notin DOMAIN live
       THEN [ok |-> FALSE, error |-> "Hold not found or expired.", holds |-> live]
     ELSE IF \/ live[a.holdId].room # a.room
             \/ live[a.holdId].date # a.date
             \/ live[a.holdId].startTime # a.startTime
       THEN [ok |-> FALSE, error |-> "Hold details do not match.", holds |-> live]
     ELSE [ok |-> TRUE, error |-> "",
           holds |-> [id \in DOMAIN live \ {a.holdId} |-> live[id]]]

\* verifyAndConsumeHold without holds.delete(holdId).
verifyAndConsumeHold_keeping(hs, t, a) ==
  LET live == purgeExpiredHolds(hs, t)
  IN IF a.holdId = NoHold THEN [ok |-> TRUE, error |-> "", holds |-> live]
     ELSE IF a.holdId \notin DOMAIN live
       THEN [ok |-> FALSE, error |-> "Hold not found or expired.", holds |-> live]
     ELSE IF \/ live[a.holdId].room # a.room
             \/ live[a.holdId].date # a.date
             \/ live[a.holdId].startTime # a.startTime
             \/ ~NumStrictEq(live[a.holdId].hours, ToNumber(a.hours))
       THEN [ok |-> FALSE, error |-> "Hold details do not match.", holds |-> live]
     ELSE [ok |-> TRUE, error |-> "", holds |-> live]

\* verifyAndConsumeHold({holdId, room, date, startTime, hours}) on the holds
\* hs at time t: the result and the holds map it leaves.
verifyAndConsumeHold(hs, t, a) ==
  LET live == purgeExpiredHolds(hs, t)
  IN IF a.holdId = NoHold THEN [ok |-> TRUE, error |-> "", holds |-> live]
     ELSE IF a.holdId \notin DOMAIN live
       THEN [ok |-> FALSE, error |-> "Hold not found or expired.", holds |-> live]
     ELSE IF \/ live[a.holdId].room # a.room
             \/ live[a.holdId].date # a.date
             \/ live[a.holdId].startTime # a.startTime
             \/ ~NumStrictEq(live[a.holdId].hours, ToNumber(a.hours))
       THEN [ok |-> FALSE, error |-> "Hold details do not match.", holds |-> live]
     ELSE [ok |-> TRUE, error |-> "",
           holds |-> [id \in DOMAIN live \ {a.holdId} |-> live[id]]]

\* The slots GET /public/availability lists: the loop over the service day
\* in steps of SLOT_STEP_MIN.
AvailableSlots(hs, room, date, blockLenMin) ==
  LET dayStart == hmToDateLocal(date, Service.start)
      dayEnd == hmToDateLocal(date, Service.end)
      busyNow == {i \in getBusyIntervals(room, date) :
                    parseHM(i.start) /\ parseHM(i.end)
                    /\ NumLt(hmToDateLocal(date, i.start), hmToDateLocal(date, i.end))}
      active == {id \in DOMAIN hs : hs[id].room = room /\ hs[id].date = date}
      steps == 0..((dayEnd.v - dayStart.v) \div (SLOT_STEP_MIN * MsPerMinute))
      blocked(start, end) ==
        \/ \E i \in busyNow :
             overlaps(start, end, hmToDateLocal(date, i.start), hmToDateLocal(date, i.end))
        \/ \E id \in active :
             LET s == hmToDateLocal(date, hs[id].startTime)
             IN overlaps(start, end, s, addMinutes(s, NumMul(hs[id].hours, Int2Num(60))))
      ok(k) ==
        LET start == addMinutes(dayStart, Int2Num(k * SLOT_STEP_MIN))
            end == addMinutes(start, blockLenMin)
        IN /\ ~NumGt(end, addMinutes(dayEnd, Int2Num(1)))
           /\ ~blocked(start, end)
      minuteOfDay(k) == Service.start.hh * 60 + Service.start.mm + k * SLOT_STEP_MIN
  IN {Time(minuteOfDay(k) \div 60, minuteOfDay(k) % 60) : k \in {j \in steps : ok(j)}}

\* ---- handlers ----

\* Time passes.
Tick ==
  /\ now < MaxTicks * HOLD_TTL_SECONDS * 1000
  /\ now' = now + HOLD_TTL_SECONDS * 1000
  /\ UNCHANGED <<holds, nextId, busy, pending, consumed, resp, quoteVars>>

\* POST /public/hold with body r = {room, date, startTime, hours}.
PostHold(r) ==
  LET live == purgeExpiredHolds(holds, now)
      room == IF r.room = NoRoom THEN ROOMS[1] ELSE r.room
      hours == IF r.hours = Undef THEN JNum(2) ELSE r.hours
      start == hmToDateLocal(r.date, r.startTime)
      end == addMinutes(start, NumMul(ToNumber(hours), Int2Num(60)))
  IN /\ UNCHANGED <<now, busy, pending, consumed, quoteVars>>
     /\ IF r.date = BadDate
        THEN /\ holds' = live
             /\ resp' = Resp("hold", 400, "Missing/invalid 'date'", NoHold, {})
             /\ UNCHANGED nextId
        ELSE IF ~parseHM(r.startTime)
        THEN /\ holds' = live
             /\ resp' = Resp("hold", 400, "Missing/invalid 'startTime' (HH:MM)", NoHold, {})
             /\ UNCHANGED nextId
        ELSE IF collide(live, room, r.date, start, end)
        THEN /\ holds' = live
             /\ resp' = Resp("hold", 409, "Time is temporarily held. Pick another slot.", NoHold, {})
             /\ UNCHANGED nextId
        ELSE /\ nextId <= MaxIds
             /\ holds' = [id \in DOMAIN live \cup {nextId} |->
                           IF id = nextId
                           THEN [room |-> room, date |-> r.date, startTime |-> r.startTime,
                                 hours |-> ToNumber(hours),
                                 expiresAt |-> now + HOLD_TTL_SECONDS * 1000]
                           ELSE live[id]]
             /\ nextId' = nextId + 1
             /\ resp' = Resp("hold", 200, "", nextId, {})

\* POST /public/hold/cancel with body {holdId}.
CancelHold(holdId) ==
  /\ UNCHANGED <<nextId, now, busy, pending, consumed, quoteVars>>
  /\ IF holdId = NoHold \/ holdId \notin DOMAIN holds
     THEN /\ resp' = Resp("cancel", 404, "", NoHold, {})
          /\ UNCHANGED holds
     ELSE /\ holds' = [id \in DOMAIN holds \ {holdId} |-> holds[id]]
          /\ resp' = Resp("cancel", 200, "", holdId, {})

\* GET /public/availability with query q = {room, date, hours}.
GetAvailability(q) ==
  LET live == purgeExpiredHolds(holds, now)
      room == IF q.room = NoRoom THEN ROOMS[1] ELSE q.room
      reqHours == ToNumber(OrElse(q.hours, JNum(Service.minHours)))
      blockLenMin == MathMin(MathMax(NumMul(reqHours, Int2Num(60)),
                                     Int2Num(Service.minHours * 60)),
                             Int2Num(Service.maxHours * 60))
  IN /\ holds' = live
     /\ UNCHANGED <<nextId, now, busy, pending, consumed, quoteVars>>
     /\ IF q.date = BadDate
        THEN resp' = Resp("availability", 400, "Missing/invalid 'date' (YYYY-MM-DD)", NoHold, {})
        ELSE IF BLOCK_SUNDAYS /\ isSunday(q.date)
        THEN resp' = Resp("availability", 200, "", NoHold, {})
        ELSE IF ~enforceLeadTime(q.date, MIN_LEAD_DAYS, now)
        THEN resp' = Resp("availability", 200, "", NoHold, {})
        ELSE resp' = Resp("availability", 200, "", NoHold,
                          AvailableSlots(live, room, q.date, blockLenMin))

\* The first of name, email, phone that is missing or blank; "" if none is.
MissingField(b) ==
  IF b.name \in {"", " "} THEN "name"
  ELSE IF b.email \in {"", " "} THEN "email"
  ELSE IF b.phone \in {"", " "} THEN "phone"
  ELSE ""

\* `Missing required field: ${f}`
MissingFieldError(f) ==
  CASE f = "name" -> "Missing required field: name"
    [] f = "email" -> "Missing required field: email"
    [] f = "phone" -> "Missing required field: phone"

\* POST /checkout up to `await stripe.checkout.sessions.create(...)`.
\* STRIPE_SECRET_KEY is set: the `!stripe` answer (500) is not modelled.
CheckoutStart(b) ==
  LET check == verifyAndConsumeHold(holds, now,
                 [holdId |-> b.holdId, room |-> b.room, date |-> b.date,
                  startTime |-> b.startTime, hours |-> b.hours])
      q == computeQuote_hold(b)
  IN /\ UNCHANGED <<nextId, now, busy, quoteVars>>
     /\ holds' = check.holds
     /\ IF ~check.ok
        THEN /\ resp' = Resp("checkout", 409, check.error, b.holdId, {})
             /\ UNCHANGED <<pending, consumed>>
        ELSE /\ consumed' = IF b.holdId = NoHold THEN consumed
                            ELSE consumed \cup {b.holdId}
             /\ IF MissingField(b) # ""
                THEN /\ resp' = Resp("checkout", 400, MissingFieldError(MissingField(b)), b.holdId, {})
                     /\ UNCHANGED pending
                ELSE IF q.threw
                THEN /\ resp' = Resp("checkout", 400, "Checkout failed", b.holdId, {})
                     /\ UNCHANGED pending
                ELSE /\ Len(pending) < MaxPending
                     /\ pending' = Append(pending,
                          [holdId |-> b.holdId,
                           room |-> IF b.room = NoRoom THEN "The Studio" ELSE b.room,
                           date |-> b.date, startTime |-> b.startTime, hours |-> q.hours])
                     /\ UNCHANGED resp

\* POST /checkout after the await: the session was created (ok) or
\* stripe.checkout.sessions.create threw.
CheckoutComplete(i, ok) ==
  /\ i \in 1..Len(pending)
  /\ pending' = [k \in 1..(Len(pending) - 1) |-> IF k < i THEN pending[k] ELSE pending[k + 1]]
  /\ resp' = IF ok THEN Resp("checkout", 200, "", pending[i].holdId, {})
             ELSE Resp("checkout", 400, "Checkout failed", pending[i].holdId, {})
  /\ UNCHANGED <<holds, nextId, now, busy, consumed, quoteVars>>

\* ---- inputs ----

\* 1970-01-05 (Monday) and 1970-01-06; 1970-01-04 is a Sunday and
\* 1970-01-03 is less than MIN_LEAD_DAYS after the first day of the clock.
D1 == 4
D2 == 5
DSunday == 3
DSoon == 2

HoldBody(r, d, t, h) == [room |-> r, date |-> d, startTime |-> t, hours |-> h]

\* Hold requests on one room and date: overlapping and adjacent intervals,
\* and hours that are zero, negative or not a number; and one request each
\* for another room, the default room, a malformed date and two malformed
\* start times.
HoldBodies ==
  {HoldBody("The Studio", D1, Time(10, 0), h) : h \in {Undef, JNum(1), JNum(0)}}
  \cup {HoldBody("The Studio", D1, Time(11, 0), h) :
          h \in {JNum(1), JNum(0), JNum(-1), JStr("abc")}}
  \cup {HoldBody("The Lobby", D1, Time(11, 0), JStr("2")),
        HoldBody(NoRoom, D1, Time(11, 0), JNum(2)),
        HoldBody("The Studio", BadDate, Time(11, 0), JNum(2)),
        HoldBody("The Studio", D1, Time(24, 0), JNum(2)),
        HoldBody("The Studio", D1, BadTime, JNum(2))}

\* The hold requests of the checkout specification.
CheckoutHoldBodies ==
  {HoldBody("The Studio", D1, Time(10, 0), Undef),
   HoldBody("The Lobby", D1, Time(11, 0), JNum(1))}

\* The hold requests of the expiry specification.
FewHoldBodies ==
  {HoldBody("The Studio", D1, Time(10, 0), Undef),
   HoldBody("The Studio", D1, Time(11, 0), JNum(2)),
   HoldBody("The Lobby", D1, Time(10, 0), JNum(2))}

AvailabilityQueries ==
  {[room |-> "The Studio", date |-> d, hours |-> Undef] : d \in {D1, DSunday, DSoon, BadDate}}
  \cup {[room |-> "The Studio", date |-> D1, hours |-> JStr("3")],
        [room |-> NoRoom, date |-> D1, hours |-> Undef],
        [room |-> "The Lobby", date |-> D1, hours |-> JStr("abc")]}

Contact(n, e, p) == [name |-> n, email |-> e, phone |-> p]
Contacts ==
  {Contact("Ann", "a@x", "1"), Contact("", "a@x", "1"),
   Contact("Ann", " ", "1"), Contact("Ann", "a@x", "")}

CheckoutBody(id, r, d, t, h, m, c) ==
  [holdId |-> id, room |-> r, date |-> d, startTime |-> t, name |-> c.name,
   email |-> c.email, phone |-> c.phone] @@ [NoBody EXCEPT !.hours = h, !.mode = m]

\* The checkout a client sends after it was granted hold id: the details of
\* the hold, as stored.
EchoBody(id) ==
  CheckoutBody(id, holds[id].room, holds[id].date, holds[id].startTime,
               IF holds[id].hours.nan THEN JStr("abc") ELSE JNum(holds[id].hours.v),
               Undef, Contact("Ann", "a@x", "1"))

\* Every contact with the mode absent, and a complete contact with a mode
\* that is not a string.
CheckoutTails ==
  {<<Undef, c>> : c \in Contacts} \cup {<<JNum(5), Contact("Ann", "a@x", "1")>>}
\* <<room, date, startTime, hours>> as the holds of CheckoutHoldBodies store
\* them (hours also as a numeric string), and with one of the four changed.
StoredShapes ==
  {<<"The Studio", D1, Time(10, 0), JNum(2)>>,
   <<"The Studio", D1, Time(10, 0), JStr("2")>>,
   <<"The Lobby", D1, Time(11, 0), JNum(1)>>}
ChangedShapes ==
  {<<"The Lobby", D1, Time(10, 0), JNum(2)>>,
   <<"The Studio", D2, Time(10, 0), JNum(2)>>,
   <<"The Studio", D1, Time(11, 0), JNum(2)>>,
   <<"The Studio", D1, Time(10, 0), JNum(1)>>,
   <<"The Lobby", D1, Time(11, 0), JStr("abc")>>}
\* Checkouts that present a holdId with the stored details (and every kind
\* of contact and mode) or with changed details, and checkouts that present
\* none.
CheckoutBodies ==
  {CheckoutBody(id, "The Studio", D1, Time(10, 0), JNum(2), mc[1], mc[2]) :
     id \in 1..MaxIds,
     mc \in {<<Undef, Contact("Ann", "a@x", "1")>>, <<Undef, Contact("", "a@x", "1")>>,
             <<JNum(5), Contact("Ann", "a@x", "1")>>}}
  \cup {CheckoutBody(id, x[1], x[2], x[3], x[4], Undef, Contact("Ann", "a@x", "1")) :
          id \in 1..MaxIds, x \in StoredShapes \cup ChangedShapes}
  \cup {CheckoutBody(NoHold, "The Studio", D1, Time(10, 0), JNum(2), mc[1], mc[2]) :
          mc \in CheckoutTails}
  \cup {CheckoutBody(NoHold, "The Studio", D1, Time(11, 0), JNum(2), Undef,
                     Contact("Ann", "a@x", "1"))}

\* What the calendar may report: nothing, or The Studio busy 11:00-12:00 on D1.
BusyChoices ==
  {{}, {[room |-> "The Studio", date |-> D1, start |-> Time(11, 0), end |-> Time(12, 0)]}}

\* ---- specifications of the hold manager ----

InitHolds ==
  /\ holds = [id \in {} |-> 0]
  /\ nextId = 1
  /\ now = 0
  /\ pending = <<>>
  /\ consumed = {}
  /\ resp = NoResp
  /\ qbody = NoBody
  /\ qvariant = "none"
  /\ quote = NoQuote

\* The calendar reports nothing busy.
Init == InitHolds /\ busy = {}

\* Hold creation, cancellation, consumption and expiry.
Next ==
  \/ Tick
  \/ \E r \in HoldBodies : PostHold(r)
  \/ \E id \in 0..MaxIds : CancelHold(id)
  \/ \E id \in DOMAIN holds : CheckoutStart(EchoBody(id))
  \/ \E i \in 1..MaxPending, ok \in BOOLEAN : CheckoutComplete(i, ok)

Spec == Init /\ [][Next]_vars

\* Expiry as seen by the three handlers that purge.
NextExpiry ==
  \/ Tick
  \/ \E r \in FewHoldBodies : PostHold(r)
  \/ \E q \in AvailabilityQueries : GetAvailability(q)
  \/ \E id \in DOMAIN holds : CheckoutStart(EchoBody(id))
  \/ \E i \in 1..MaxPending, ok \in BOOLEAN : CheckoutComplete(i, ok)

SpecExpiry == Init /\ [][NextExpiry]_vars

\* The same handlers against a calendar that may report a busy interval.
InitCalendar == InitHolds /\ busy \in BusyChoices

SpecCalendar == InitCalendar /\ [][NextExpiry]_vars

\* Checkout against a few holds.
NextCheckout ==
  \/ Tick
  \/ \E r \in CheckoutHoldBodies : PostHold(r)
  \/ \E id \in 0..MaxIds : CancelHold(id)
  \/ \E b \in CheckoutBodies : CheckoutStart(b)
  \/ \E i \in 1..MaxPending, ok \in BOOLEAN : CheckoutComplete(i, ok)

SpecCheckout == Init /\ [][NextCheckout]_vars

\* ------------------------------------------------------------------------
\* Properties of the hold manager
\* ------------------------------------------------------------------------

\* The interval a hold or a request asks for, in minutes of its day:
\* [from, from + len), with len a JS number (NaN for non-numeric hours).
SpanOf(room, date, startTime, hours) ==
  [room |-> room, date |-> date, from |-> startTime.hh * 60 + startTime.mm,
   len |-> NumMul(hours, Int2Num(60))]
HoldSpan(h) == SpanOf(h.room, h.date, h.startTime, h.hours)
RequestSpan(r) ==
  SpanOf(IF r.room = NoRoom THEN "The Studio" ELSE r.room, r.date, r.startTime,
         IF r.hours = Undef THEN Int2Num(2) ELSE ToNumber(r.hours))

\* Minute m lies in the interval.
Covers(a, m) == ~a.len.nan /\ a.from <= m /\ m < a.from + a.len.v
\* The two intervals are of the same room and date and share a minute (two
\* intervals that share a minute share the first minute of one of them).
Intersect(a, b) ==
  /\ a.room = b.room
  /\ a.date = b.date
  /\ \E m \in {a.from, b.from} : Covers(a, m) /\ Covers(b, m)
\* Neither interval ends before the other starts.
Conflict(a, b) ==
  /\ a.room = b.room
  /\ a.date = b.date
  /\ ~a.len.nan
  /\ ~b.len.nan
  /\ a.from < b.from + b.len.v
  /\ b.from < a.from + a.len.v

\* The request has a date and a start time POST /public/hold accepts.
WellFormed(r) ==
  r.date # BadDate /\ r.startTime # BadTime /\ r.startTime.hh < 24 /\ r.startTime.mm < 60
\* The hold is in the map and its expiresAt is still ahead.
Live(id) == id \in DOMAIN holds /\ holds[id].expiresAt > now
\* The response is that of the named handler, with the status.
Answered(r, op, status) == r.op = op /\ r.status = status

NotFound == "Hold not found or expired."
NoMatch == "Hold details do not match."

\* C1: hold exclusivity. A hold request whose interval overlaps the interval
\* of a non-expired stored hold of the same room and date is answered 409,
\* and the holds map never contains two holds of the same room and date
\* whose intervals overlap, whatever hours the requests carried.
C1_HoldExclusivity ==
  [][ /\ \A r \in HoldBodies :
          (/\ PostHold(r)
           /\ WellFormed(r)
           /\ \E id \in DOMAIN holds : Live(id) /\ Intersect(HoldSpan(holds[id]), RequestSpan(r)))
          => (Answered(resp', "hold", 409) /\ nextId' = nextId)
      /\ \A i, j \in DOMAIN holds' :
           i # j => ~Intersect(HoldSpan(holds'[i]), HoldSpan(holds'[j]))]_vars

\* Two holds of the same room and date are stored, one of them with hours
\* that are zero, negative or not a number, and a hold request was just
\* answered 409.
C1_Witness ==
  /\ Answered(resp, "hold", 409)
  /\ \E i, j \in DOMAIN holds :
       /\ i # j
       /\ holds[i].room = holds[j].room
       /\ holds[i].date = holds[j].date
       /\ (holds[j].hours.nan \/ holds[j].hours.v <= 0)
       /\ ~holds[i].hours.nan
       /\ holds[i].hours.v > 0

\* The hold a checkout presents, as verifyAndConsumeHold compares it.
Matches(h, b) ==
  /\ h.room = b.room
  /\ h.date = b.date
  /\ h.startTime = b.startTime
  /\ ~h.hours.nan
  /\ ToNumber(b.hours) = h.hours

\* C2: a checkout deletes the hold it presents only when room, date,
\* startTime and hours all equal the stored values; when one differs the
\* checkout is answered 409, the hold stays unchanged and no session is
\* created.
C2_ConsumeOnlyOnMatch ==
  [][\A b \in CheckoutBodies :
       (Live(b.holdId) /\ CheckoutStart(b)) =>
         /\ (~Matches(holds[b.holdId], b)) =>
              (/\ Answered(resp', "checkout", 409)
               /\ resp'.error = NoMatch
               /\ b.holdId \in DOMAIN holds'
               /\ holds'[b.holdId] = holds[b.holdId]
               /\ pending' = pending
               /\ consumed' = consumed)
         /\ (b.holdId \notin DOMAIN holds') => Matches(holds[b.holdId], b)]_vars

\* A checkout was answered 409 for details that do not match, and the hold
\* it presented is still stored.
C2_Witness ==
  /\ Answered(resp, "checkout", 409)
  /\ resp.error = NoMatch
  /\ resp.holdId \in DOMAIN holds

\* C3: a checkout that presented a valid holdId and ended without a session
\* (a contact field missing, or the session creation threw) leaves the hold
\* in the holds map.
C3_FailedCheckoutKeepsHold ==
  (Answered(resp, "checkout", 400) /\ resp.holdId # NoHold) => resp.holdId \in DOMAIN holds

\* C4: while a non-expired hold exists, no checkout other than the one
\* presenting its holdId gets a session for an overlapping interval of the
\* same room and date.
C4_HoldsPreventDoubleBooking ==
  [][\A i \in 1..Len(pending) :
       CheckoutComplete(i, TRUE) =>
         ~\E id \in DOMAIN holds :
            /\ Live(id)
            /\ id # pending[i].holdId
            /\ Intersect(HoldSpan(holds[id]), HoldSpan(pending[i]))]_vars

\* C5: a hold leaves the map by consumption, expiry or cancel and never
\* comes back; once a checkout has consumed a holdId, every later checkout
\* presenting it is answered 409 'Hold not found or expired.' and starts no
\* session, so no holdId is consumed twice.
C5_ConsumedOnce ==
  [][ /\ \A b \in CheckoutBodies :
          (b.holdId \in consumed /\ CheckoutStart(b)) =>
            /\ Answered(resp', "checkout", 409)
            /\ resp'.error = NotFound
            /\ pending' = pending
            /\ consumed' = consumed
      /\ \A id \in consumed' : id \notin DOMAIN holds'
      /\ \A id \in DOMAIN holds' \ DOMAIN holds : id = nextId /\ nextId' = nextId + 1
      /\ \A id \in DOMAIN holds \ DOMAIN holds' :
           \/ id \in consumed' \ consumed
           \/ holds[id].expiresAt <= now
           \/ Answered(resp', "cancel", 200) /\ resp'.holdId = id
      /\ \A i, j \in 1..Len(pending') :
           (i # j /\ pending'[i].holdId # NoHold) => pending'[i].holdId # pending'[j].holdId]_vars

\* A checkout presenting a holdId that an earlier checkout consumed was
\* answered 409.
C5_Witness ==
  /\ Answered(resp, "checkout", 409)
  /\ resp.error = NotFound
  /\ resp.holdId \in consumed

\* C6: hold creation is serialized. The handler decides on the map as it is
\* when it runs and inserts in the same step: a request that overlaps a live
\* hold is answered 409 and inserts nothing; a request for a non-empty
\* interval with no conflicting live hold gets a holdId, and its hold is in
\* the map before any other request runs, so that every request overlapping
\* it finds it. Of two overlapping requests exactly the first gets a holdId.
C6_HoldCreationSerialized ==
  [][\A r \in HoldBodies :
       (PostHold(r) /\ WellFormed(r)) =>
         LET a == RequestSpan(r)
         IN /\ (\E id \in DOMAIN holds : Live(id) /\ Intersect(HoldSpan(holds[id]), a))
                 => (/\ Answered(resp', "hold", 409)
                     /\ DOMAIN holds' \subseteq DOMAIN holds)
            /\ (/\ Covers(a, a.from)
                /\ ~\E id \in DOMAIN holds : Live(id) /\ Conflict(HoldSpan(holds[id]), a))
                 => (/\ Answered(resp', "hold", 200)
                     /\ resp'.holdId \in DOMAIN holds' \ DOMAIN holds
                     /\ HoldSpan(holds'[resp'.holdId]) = a
                     /\ holds'[resp'.holdId].expiresAt > now
                     /\ \A r2 \in HoldBodies :
                          (WellFormed(r2) /\ Intersect(a, RequestSpan(r2)))
                            => Intersect(HoldSpan(holds'[resp'.holdId]), RequestSpan(r2)))
            /\ Answered(resp', "hold", 200) <=> (DOMAIN holds' \ DOMAIN holds # {})]_vars

\* With nothing held before, one request was granted and an overlapping
\* request handled at the same time was answered 409.
C6_Witness ==
  /\ Answered(resp, "hold", 409)
  /\ now = 0
  /\ nextId = 2
  /\ DOMAIN holds = {1}
  /\ Covers(HoldSpan(holds[1]), HoldSpan(holds[1]).from)

\* The slots of the service day, and whether a block of the asked length
\* starting at minute m ends in the service day.
GridMinutes == {600 + k * SLOT_STEP_MIN : k \in 0..36}
AskedSpan(q, m) ==
  LET h == ToNumber(OrElse(q.hours, JNum(2)))
      clamped == IF h.nan THEN h ELSE Int2Num(IF h.v < 2 THEN 2 ELSE IF h.v > 6 THEN 6 ELSE h.v)
  IN SpanOf(IF q.room = NoRoom THEN "The Studio" ELSE q.room, q.date,
            Time(m \div 60, m % 60), clamped)
Bookable(q) == q.date \notin {BadDate, DSunday, DSoon}

\* C7: lazy expiry. A hold is created with expiresAt = now + HOLD_TTL_SECONDS
\* (in ms). Handled at a time >= expiresAt, a hold request that only expired
\* holds conflict with is granted, an availability query misses no slot on
\* account of an expired hold, and a checkout presenting an expired holdId
\* is answered 409 'Hold not found or expired.'; handled at a time <
\* expiresAt, an overlapping hold request is answered 409.
C7_LazyExpiry ==
  [][ /\ \A id \in DOMAIN holds' \ DOMAIN holds :
          holds'[id].expiresAt = now + HOLD_TTL_SECONDS * 1000
      /\ \A r \in FewHoldBodies :
           (PostHold(r) /\ WellFormed(r)) =>
             /\ (\E id \in DOMAIN holds : Live(id) /\ Intersect(HoldSpan(holds[id]), RequestSpan(r)))
                  => Answered(resp', "hold", 409)
             /\ (~\E id \in DOMAIN holds : Live(id) /\ Conflict(HoldSpan(holds[id]), RequestSpan(r)))
                  => Answered(resp', "hold", 200)
      /\ \A q \in AvailabilityQueries :
           (resp'.op = "availability" /\ Bookable(q) /\ GetAvailability(q)) =>
             \A m \in GridMinutes :
               LET a == AskedSpan(q, m)
                   fits == a.len.nan \/ m + a.len.v <= 19 * 60
                   held == \E id \in DOMAIN holds : Live(id) /\ Conflict(HoldSpan(holds[id]), a)
               IN Time(m \div 60, m % 60) \in resp'.slots <=> (fits /\ ~held)
      /\ \A id \in DOMAIN holds :
           (~Live(id) /\ CheckoutStart(EchoBody(id))) =>
             /\ Answered(resp', "checkout", 409)
             /\ resp'.error = NotFound
             /\ pending' = pending
             /\ consumed' = consumed]_vars

\* A checkout presenting the holdId of a hold that was stored but past its
\* expiresAt was answered 409.
C7_Witness ==
  /\ Answered(resp, "checkout", 409)
  /\ resp.error = NotFound
  /\ resp.holdId # NoHold
  /\ resp.holdId \notin consumed
  /\ now >= HOLD_TTL_SECONDS * 1000

\* C8: a hold request whose interval overlaps an interval the calendar
\* reports busy for the same room and date is answered with a conflict: no
\* hold that overlaps a busy interval is granted.
BusySpan(i) ==
  [room |-> i.room, date |-> i.date, from |-> i.start.hh * 60 + i.start.mm,
   len |-> Int2Num((i.end.hh * 60 + i.end.mm) - (i.start.hh * 60 + i.start.mm))]
MaxCams == 5

QuoteBodies ==
  {[NoBody EXCEPT !.hours = h, !.mode = m, !.engineerChoice = e, !.extraCameras = x,
                  !.peopleOnCamera = p, !.postProduction = pp, !.teleprompter = f,
                  !.isFirstTime = ft] :
     h \in {Undef, JNum(1), JNum(3), JNum(7), JStr("abc")},
     m \in {Undef, JStr("AUDIO_ONLY"), JStr("audio_only"), JNum(5)},
     e \in {Undef, JStr("none"), JStr("None")},
     x \in {Undef, JNum(2), JNum(-1), JStr("abc")},
     p \in {Undef, JNum(3)},
     pp \in {Undef, JStr("abc"), JStr(""), JNum(-1)} \cup {JNum(k) : k \in {0, 1, MaxCams}},
     f \in {Undef, JBool(TRUE), JStr("false")},
     ft \in {Undef, JBool(TRUE)}}

InitQuote ==
  /\ holds = [id \in {} |-> 0]
  /\ nextId = 1
  /\ now = 0
  /\ pending = <<>>
  /\ consumed = {}
  /\ resp = NoResp
  /\ busy = {}
  /\ qbody \in QuoteBodies
  /\ qvariant = "none"
  /\ quote = NoQuote

Run(variant, q) ==
  /\ qvariant' = variant
  /\ quote' = q
  /\ UNCHANGED <<qbody, holdVars>>

QuoteFirst == Run("first", computeQuote_first(qbody))
QuoteDiscount == Run("discount", computeTotals_discount(qbody))
QuoteFixed == Run("fixed", computeTotals_fixed(qbody))
QuoteLinear == Run("linear", computeQuote_linear(qbody))
QuoteWebhook == Run("webhook", computeQuote_webhook(qbody))
QuoteStudio == Run("studio", computeStudioQuote(qbody))
QuoteSecond == Run("second", computeQuote_second(qbody))
QuoteHold == Run("hold", computeQuote_hold(qbody))
QuoteTiered == Run("tiered", computeQuote_tiered(qbody))

NextQuote ==
  \/ QuoteFirst
  \/ QuoteDiscount
  \/ QuoteFixed
  \/ QuoteLinear
  \/ QuoteWebhook
  \/ QuoteStudio
  \/ QuoteSecond
  \/ QuoteHold
  \/ QuoteTiered

SpecQuote == InitQuote /\ [][NextQuote]_vars

\* A quote was returned for qbody.
Quoted == qvariant # "none" /\ ~quote.threw

\* C9: in every calculator variant a request with postProduction explicitly
\* 0 is quoted postProd = 0, whatever extraCameras, peopleOnCamera and mode
\* are.
C9_ZeroPostProduction ==
  (Quoted /\ qbody.postProduction = JNum(0)) => quote.postProd = Int2Num(0)

\* C10: in every quote returned, total is the sum of the breakdown entries
\* as reported: baseSubtotal + engineerSubtotal + extrasSession +
\* extraCamsSubtotal (where it is reported) + postProd.
BreakdownSum(q) ==
  LET three == NumAdd(NumAdd(q.baseSubtotal, q.engineerSubtotal), q.extrasSession)
      four == IF q.separateExtraCams THEN NumAdd(three, q.extraCamsSubtotal) ELSE three
  IN NumAdd(four, q.postProd)
C10_SumInvariant == Quoted => NumStrictEq(quote.total, BreakdownSum(quote))

\* C12: in every calculator the hours that are priced and returned satisfy
\* MIN_HOURS <= hours <= MAX_HOURS, for every requested hours value, and the
\* two hourly subtotals are multiples of those hours.
C12_HoursClamp ==
  Quoted =>
    /\ NumLe(Int2Num(MIN_HOURS), quote.hours)
    /\ NumLe(quote.hours, Int2Num(MAX_HOURS))
    /\ \E rate \in {45, 55} : NumStrictEq(quote.baseSubtotal, NumMul(quote.hours, Int2Num(rate)))
    /\ \E rate \in {0, 20} : NumStrictEq(quote.engineerSubtotal, NumMul(quote.hours, Int2Num(rate)))

\* engineerChoice is the enum value none, in any letter case.
IsNone(v) == v.t = "string" /\ toLowerCase(v.s) = "none"

\* C13: in every calculator engineerSubtotal is 0 when engineerChoice is
\* none (in any letter case) and 20 * hours otherwise.
C13_EngineerFee ==
  Quoted =>
    NumStrictEq(quote.engineerSubtotal,
                IF IsNone(qbody.engineerChoice) THEN Int2Num(0)
                ELSE NumMul(Int2Num(20), quote.hours))

\* C14: in every calculator baseSubtotal is hours * 45 for mode AUDIO_ONLY
\* and hours * 55 for mode ONE_CAMERA (the default).
C14_BaseRateByMode ==
  (Quoted /\ qbody.mode \in {Undef, JStr("AUDIO_ONLY"), JStr("ONE_CAMERA")}) =>
    NumStrictEq(quote.baseSubtotal,
                NumMul(quote.hours,
                       Int2Num(IF qbody.mode = JStr("AUDIO_ONLY") THEN 45 ELSE 55)))

\* C20: in every calculator, whatever is missing or non-numeric among hours,
\* extraCameras, peopleOnCamera and postProduction, the quote's hours,
\* totalCams, breakdown entries and total are finite numbers.
C20_NumericFallback ==
  Quoted =>
    /\ IsFinite(quote.hours)
    /\ IsFinite(quote.totalCams)
    /\ IsFinite(quote.baseSubtotal)
    /\ IsFinite(quote.engineerSubtotal)
    /\ IsFinite(quote.extrasSession)
    /\ IsFinite(quote.extraCamsSubtotal)
    /\ IsFinite(quote.postProd)
    /\ IsFinite(quote.total)


\* ------------------------------------------------------------------------
\* Part III.  POST /checkout of every server variant: validation, the
\* line_items handed to stripe.checkout.sessions.create, and its metadata
\* ------------------------------------------------------------------------

\* The date / startTime field absent from the body (or the empty string).
NoDate == -2
NoTime == [hh |-> -2, mm |-> -2]

\* One entry of line_items: price_data.product_data.name, price_data.unit_amount
\* (cents) and quantity.  The name is its fixed text and, for the base line,
\* the value interpolated into `Studio booking (${...})`.
Item(name, label, u, q) ==
  [name |-> name, label |-> label, unit_amount |-> u, quantity |-> q]
\* if (cond) items.push({...})
ItemIf(cond, name, u, q) == IF cond THEN <<Item(name, Undef, u, q)>> ELSE <<>>
\* The base line: `Studio booking (${label})`.
BaseItem(label, u, q) == Item("Studio booking", label, u, q)
\* baseName of part_001 and part_003.
baseName(q) == IF q.mode = JStr("AUDIO_ONLY") THEN JStr("Audio Only") ELSE JStr("One Camera")
Cents(k) == Int2Num(k * 100)

\* What Stripe charges for the line_items: the sum of unit_amount * quantity.
RECURSIVE AmountTotal(_)
AmountTotal(items) ==
  IF items = <<>> THEN Int2Num(0)
  ELSE NumAdd(NumMul(Head(items).unit_amount, Head(items).quantity),
              AmountTotal(Tail(items)))

\* if (x) on a number: 0 and NaN are falsy.
NumTruthy(a) == ~a.nan /\ a.v # 0

\* The four flat add-ons as line items, teleprompter first.
AddOnItems(b) ==
  ItemIf(Truthy(b.teleprompter), "Teleprompter", Cents(25), Int2Num(1))
  \o ItemIf(Truthy(b.remoteGuest), "Remote Guest", Cents(10), Int2Num(1))
  \o ItemIf(Truthy(b.adClips5), "+5 Ad Clips", Cents(150), Int2Num(1))
  \o ItemIf(Truthy(b.mediaSdOrUsb), "Media to SD/USB", Cents(50), Int2Num(1))

\* The engineer line: if (q.breakdown.engineerSubtotal > 0).
EngineerItem(q) ==
  ItemIf(NumGt(q.engineerSubtotal, Int2Num(0)), "Studio Engineer", Cents(20), q.hours)

\* Post production as one line of 200 per camera.
PostProdItems_perCamera(b) ==
  LET pp == MathMax(Int2Num(0), num(b.postProduction, 0))
  IN ItemIf(NumGt(pp, Int2Num(0)), "Post Production - first cam", Cents(200), pp)

\* Post production as two lines: the first camera, then the further ones.
PostProdItems(b) ==
  LET pp == MathMax(Int2Num(0), num(b.postProduction, 0))
  IN IF NumGt(pp, Int2Num(0))
     THEN <<Item("Post Production - first cam", Undef, Cents(200), Int2Num(1))>>
          \o ItemIf(NumGt(pp, Int2Num(1)), "Post Production - addl cam(s)", Cents(100),
                    NumSub(pp, Int2Num(1)))
     ELSE <<>>

\* Post production as one line of postProdTiered(pp) * 100 cents.
PostProdTieredItem(b) ==
  LET pp == MathMax(Int2Num(0), num(b.postProduction, 0))
  IN ItemIf(NumGt(pp, Int2Num(0)), "Post Production (cams)",
            NumMul(postProdTiered(pp), Int2Num(100)), Int2Num(1))

\* Extra cameras: fee dollars each.
ExtraCameraItem(b, fee) ==
  LET extraCams == MathMax(Int2Num(0), num(b.extraCameras, 0))
  IN ItemIf(NumGt(extraCams, Int2Num(0)), "Extra Camera(s)", Cents(fee), extraCams)

\* q.breakdown.baseHourly of computeQuote (first variant).
baseHourly(q) == IF q.mode = JStr("AUDIO_ONLY") THEN 45 ELSE 55

\* server.js POST /checkout (first variant): items.
items_first(b, q) ==
  <<BaseItem(q.mode, Cents(baseHourly(q)), q.hours)>> \o EngineerItem(q) \o AddOnItems(b)
  \o ExtraCameraItem(b, 25) \o PostProdItems(b)

\* server.js POST /checkout (discount variant): items.
items_discount(b, base) ==
  LET rate == IF toUpperCase(StringOf(OrElse(b.mode, JStr("ONE_CAMERA")))) = "AUDIO_ONLY"
              THEN 45 ELSE 55
      quantity == MathMax(Int2Num(1), NumberOr(b.hours, Int2Num(1)))
  IN (IF NumTruthy(base.baseSubtotal)
      THEN <<BaseItem(OrElse(b.mode, JStr("ONE CAMERA")), Cents(rate), quantity)>>
      ELSE <<>>)
     \o ItemIf(NumTruthy(base.engineerSubtotal), "Studio Engineer", Int2Num(2000), quantity)
     \o ItemIf(NumTruthy(base.extrasSession), "Extras (session)",
               NumMul(base.extrasSession, Int2Num(100)), Int2Num(1))
     \o ItemIf(NumTruthy(base.postProd), "Post Production",
               NumMul(base.postProd, Int2Num(100)), Int2Num(1))

\* server.js POST /checkout (fixed variant): one line for the whole session,
\* unit_amount Math.round(Number(total || 0) * 100).
items_fixed(b, q) ==
  <<Item("sessionTitle", Undef,
         IF NumTruthy(q.total) THEN NumMul(q.total, Int2Num(100)) ELSE Int2Num(0),
         Int2Num(1))>>

\* src/unnamed/part_000 POST /checkout (linear variant): items.
items_linear(b, q) ==
  LET postProduction == MathMax(Int2Num(0), num(b.postProduction, 0))
  IN <<BaseItem(q.mode, Cents(55), q.hours)>> \o EngineerItem(q) \o ExtraCameraItem(b, 100)
     \o AddOnItems(b)
     \o ItemIf(NumGt(postProduction, Int2Num(0)), "Post Production (cams to edit)",
               Cents(200), postProduction)

\* src/unnamed/part_000 POST /checkout (webhook variant): items.
items_webhook(b, q) ==
  <<BaseItem(q.mode, Cents(55), q.hours)>> \o EngineerItem(q) \o AddOnItems(b)
  \o ExtraCameraItem(b, 25) \o PostProdItems(b)

\* src/unnamed/part_001 POST /checkout (second variant): items.
items_second(b, q) ==
  <<BaseItem(q.mode, Cents(55), q.hours)>> \o EngineerItem(q) \o ExtraCameraItem(b, 25)
  \o AddOnItems(b) \o PostProdTieredItem(b)

\* src/unnamed/part_003 POST /checkout: items.
items_tiered(b, q) ==
  <<BaseItem(baseName(q), Cents(baseHourly(q)), q.hours)>> \o EngineerItem(q) \o AddOnItems(b)
  \o ExtraCameraItem(b, 25) \o PostProdTieredItem(b)


\* src/unnamed/part_001 computeMusicQuote (validating variant).  The add-ons
\* subtotal is reported where the studio quote reports extrasSession.
computeMusicQuote(body) ==
  LET hours == MathMin(Int2Num(MAX_HOURS), MathMax(Int2Num(MIN_HOURS), num(body.hours, 2)))
      musicHourly == IF NumLe(Int2Num(4), hours) THEN 65 ELSE 75
      baseSubtotal == NumMul(hours, Int2Num(musicHourly))
      a0 == NumAdd(NumAdd(NumAdd(Fee(body.videoSession, 75), Fee(body.mixing, 200)),
                          Fee(body.mastering, 50)), Fee(body.beatProduction, 100))
      songs == MathMax(Int2Num(0), num(body.vocalSongCount, 0))
      vocalTuningSubtotal == NumMul(songs, Int2Num(50))
      mus0 == MathMax(Int2Num(0), num(body.musicianHours, 0))
      musHours == IF NumStrictEq(mus0, Int2Num(0)) THEN hours ELSE mus0
      musicianSubtotal == NumMul(musHours, Int2Num(80))
      addons == NumAdd(NumAdd(NumAdd(a0, vocalTuningSubtotal), musicianSubtotal),
                       Fee(body.albumArtwork, 150))
      total == NumAdd(baseSubtotal, addons)
  IN Quote(hours, JStr("MUSIC"), baseSubtotal, Int2Num(0), addons, Int2Num(0),
           Int2Num(0), total, Int2Num(0), FALSE, TRUE)

\* src/unnamed/part_001 computeQuote (validating variant): MUSIC or studio.
computeQuote_validating(body) ==
  LET rawMode == OrElse(body.mode, JStr("ONE_CAMERA"))
  IN IF MethodThrows(rawMode) THEN Threw
     ELSE IF toUpperCase(rawMode.s) = "MUSIC" THEN computeMusicQuote(body)
     ELSE computeStudioQuote(body)

\* src/unnamed/part_001 POST /checkout (validating variant): items.
items_validating(b, q) ==
  IF q.mode = JStr("MUSIC")
  THEN LET unitCents == IF NumLe(Int2Num(4), q.hours) THEN 65 ELSE 75
           songs == MathMax(Int2Num(0), num(b.vocalSongCount, 0))
           mus0 == MathMax(Int2Num(0), num(b.musicianHours, 0))
           musHours == IF NumStrictEq(mus0, Int2Num(0)) THEN q.hours ELSE mus0
       IN <<Item("Music Recording Session", Undef, Cents(unitCents), q.hours)>>
          \o ItemIf(Truthy(b.videoSession), "Video recording of the session", Cents(75), Int2Num(1))
          \o ItemIf(Truthy(b.mixing), "Mixing", Cents(200), Int2Num(1))
          \o ItemIf(Truthy(b.mastering), "Mastering", Cents(50), Int2Num(1))
          \o ItemIf(Truthy(b.beatProduction), "Beat Production & Instrumental",
                    Cents(100), Int2Num(1))
          \o ItemIf(NumGt(songs, Int2Num(0)), "Vocal Tuning & Editing", Cents(50), songs)
          \o ItemIf(NumGt(musHours, Int2Num(0)), "Session Musicians", Cents(80), musHours)
          \o ItemIf(Truthy(b.albumArtwork), "Album Artwork", Cents(150), Int2Num(1))
  ELSE LET pp == MathMax(Int2Num(0), num(b.postProduction, 0))
           ppSubtotal == postProdTiered(pp)
       IN <<BaseItem(baseName(q), Cents(baseHourly(q)), q.hours)>> \o EngineerItem(q)
          \o AddOnItems(b) \o ExtraCameraItem(b, 25)
          \o ItemIf(NumGt(ppSubtotal, Int2Num(0)), "Post Production (cams)", NumMul(ppSubtotal, Int2Num(100)),
                    Int2Num(1))

\* parseHHMM(str): { hh, mm } for a string of the shape \d{1,2}:\d{2}, null
\* (FALSE here) for anything else.  Neither group is range-checked.
parseHHMM(str) == str.hh \in 0..99 /\ str.mm \in 0..99

\* isSundayISO(iso): false for a missing or unparsable date.
isSundayISO(iso) == iso >= 0 /\ (iso + 4) % 7 = 0

\* isDateAtLeastDaysOutISO(iso, days) at time t: chosen >= local midnight of
\* today + days; false for a missing or unparsable date.
isDateAtLeastDaysOutISO(iso, days, t) == iso >= 0 /\ iso >= (t \div MsPerDay) + days

\* validateBookingOrThrow(b) at time t: the message of the Error it throws,
\* "" if it returns.
validateBookingOrThrow(b, t) ==
  LET hours == num(b.hours, 0)
  IN IF b.date = NoDate THEN "Missing date."
     ELSE IF isSundayISO(b.date) THEN "Sundays are not available."
     ELSE IF ~isDateAtLeastDaysOutISO(b.date, 3, t)
       THEN "Please pick a date at least 3 days from today."
     ELSE IF NumLt(hours, Int2Num(MIN_HOURS)) \/ NumGt(hours, Int2Num(MAX_HOURS))
       THEN "Hours must be between 2 and 6."
     ELSE IF b.startTime = NoTime THEN "Missing start time."
     ELSE IF ~parseHHMM(b.startTime) THEN "Invalid start time."
     ELSE IF b.startTime.hh < 10 \/ b.startTime.hh > 19
       THEN "Start time must be between 10:00 and 19:00."
     ELSE IF b.name = "" \/ b.email = "" \/ b.phone = ""
       THEN "Please provide name, email, and phone."
     ELSE ""


\* String(x) of a number, and Number(s) of the string it yields: the decimal
\* numerals of the amounts a booking can reach.
MaxAmount == 2000
NumeralTable == [k \in -1..MaxAmount |-> ToString(k)]
NumToString(a) == IF a.nan THEN "NaN" ELSE NumeralTable[a.v]
\* num(s, d) on a string of session.metadata.
numOfString(x, d) ==
  IF \E k \in DOMAIN NumeralTable : NumeralTable[k] = x
  THEN Int2Num(CHOOSE k \in DOMAIN NumeralTable : NumeralTable[k] = x)
  ELSE num(JStr(x), d)

\* String(!!v)
BoolString(v) == IF Truthy(v) THEN "true" ELSE "false"

\* The metadata of the checkout session (first variant): strings only.
\* date and startTime keep the representation they have in the body (the
\* strings are copied; an absent one becomes "").
metadata_first(b, q) ==
  [room |-> IF b.room = NoRoom THEN "The Studio" ELSE b.room,
   date |-> b.date,
   startTime |-> b.startTime,
   hours |-> NumToString(MathMax(Int2Num(MIN_HOURS), num(b.hours, MIN_HOURS))),
   mode |-> toUpperCase(OrElse(b.mode, JStr("ONE_CAMERA")).s),
   engineer |-> StringOf(OrElse(b.engineer, OrElse(b.engineerChoice, JStr("Floating")))),
   peopleOnCamera |-> NumToString(num(b.peopleOnCamera, 1)),
   extraCameras |-> NumToString(num(b.extraCameras, 0)),
   remoteGuest |-> BoolString(b.remoteGuest),
   teleprompter |-> BoolString(b.teleprompter),
   adClips5 |-> BoolString(b.adClips5),
   mediaSdOrUsb |-> BoolString(b.mediaSdOrUsb),
   postProduction |-> NumToString(num(b.postProduction, 0)),
   total |-> NumToString(q.total)]

\* The metadata of the checkout session (src/unnamed/part_000, webhook
\* variant): the mode is copied as sent.
metadata_webhook(b, q) ==
  [metadata_first(b, q) EXCEPT !.mode = StringOf(OrElse(b.mode, JStr("ONE_CAMERA")))]

\* The variants without a webhook: their metadata is not read back.
NoMetadata == <<>>
NoPayload == <<>>

\* An HTTP response of Part III: status, the error and detail members of
\* the JSON body, and (for the webhook) the payload built for the workflow.
Answer(op, status, error, detail, payload) ==
  [op |-> op, status |-> status, error |-> error, detail |-> detail, payload |-> payload]

\* A call of stripe.checkout.sessions.create: awaited, then created.
Session(variant, items, meta) ==
  [variant |-> variant, line_items |-> items, metadata |-> meta, created |-> FALSE]

bookVars == <<holds, nextId, now, busy, consumed, qbody>>

\* A handler ran on qbody: the quote it computed (NoQuote if none), the
\* response it sent (resp if it is suspended at an await) and the sessions
\* it asked Stripe to create.
Handled(variant, q, answer, sessions) ==
  /\ qvariant = "none"
  /\ qvariant' = variant
  /\ quote' = q
  /\ resp' = answer
  /\ pending' = sessions
  /\ UNCHANGED bookVars

CheckoutFailed(detail) == Answer("checkout", 400, "Checkout failed", detail, NoPayload)

\* server.js POST /checkout (first variant), STRIPE_SECRET_KEY set.
CheckoutFirst ==
  LET b == qbody
      q == computeQuote_first(b)
  IN IF MissingField(b) # ""
     THEN Handled("first", NoQuote,
                  Answer("checkout", 400, MissingFieldError(MissingField(b)), "", NoPayload),
                  <<>>)
     ELSE IF q.threw THEN Handled("first", NoQuote, CheckoutFailed("TypeError"), <<>>)
     ELSE Handled("first", q, resp,
                  <<Session("first", items_first(b, q), metadata_first(b, q))>>)

\* server.js POST /checkout (discount variant), no couponCode.
CheckoutDiscount ==
  LET b == qbody
      base == computeTotals_discount(b)
  IN Handled("discount", base, resp,
             <<Session("discount", items_discount(b, base), NoMetadata)>>)

\* server.js POST /checkout (fixed variant), SUCCESS_URL and CANCEL_URL set.
CheckoutFixed ==
  LET payload == qbody
      q == computeTotals_fixed(payload)
      c == payload.customer
  IN IF q.threw
     THEN Handled("fixed", NoQuote,
                  Answer("checkout", 500, "TypeError", "", NoPayload), <<>>)
     ELSE IF c.name = "" \/ c.email = "" \/ payload.date = NoDate
             \/ payload.startTime = NoTime
     THEN Handled("fixed", q,
                  Answer("checkout", 400,
                         "Missing required fields (name, email, date, startTime)", "",
                         NoPayload), <<>>)
     ELSE Handled("fixed", q, resp,
                  <<Session("fixed", items_fixed(payload, q), NoMetadata)>>)

\* src/unnamed/part_000 POST /checkout (linear variant).
CheckoutLinear ==
  LET q == computeQuote_linear(qbody)
  IN IF q.threw THEN Handled("linear", NoQuote, CheckoutFailed("TypeError"), <<>>)
     ELSE Handled("linear", q, resp,
                  <<Session("linear", items_linear(qbody, q), NoMetadata)>>)

\* src/unnamed/part_000 POST /checkout (webhook variant).
CheckoutWebhook ==
  LET q == computeQuote_webhook(qbody)
  IN Handled("webhook", q, resp,
             <<Session("webhook", items_webhook(qbody, q), metadata_webhook(qbody, q))>>)

\* src/unnamed/part_001 POST /checkout (validating variant).
CheckoutValidating ==
  LET reason == validateBookingOrThrow(qbody, now)
      q == computeQuote_validating(qbody)
  IN IF reason # "" THEN Handled("validating", NoQuote, CheckoutFailed(reason), <<>>)
     ELSE IF q.threw THEN Handled("validating", NoQuote, CheckoutFailed("TypeError"), <<>>)
     ELSE Handled("validating", q, resp,
                  <<Session("validating", items_validating(qbody, q), NoMetadata)>>)

\* src/unnamed/part_001 POST /quote (validating variant).
QuoteValidating ==
  LET reason == validateBookingOrThrow(qbody, now)
      q == computeQuote_validating(qbody)
  IN IF reason # ""
     THEN Handled("validating", NoQuote,
                  Answer("quote", 400, "Bad Request", reason, NoPayload), <<>>)
     ELSE IF q.threw
     THEN Handled("validating", NoQuote,
                  Answer("quote", 400, "Bad Request", "TypeError", NoPayload), <<>>)
     ELSE Handled("validating", q, Answer("quote", 200, "", "", NoPayload), <<>>)

\* src/unnamed/part_001 POST /checkout (second variant).
CheckoutSecond ==
  LET q == computeQuote_second(qbody)
  IN IF q.threw THEN Handled("second", NoQuote, CheckoutFailed("TypeError"), <<>>)
     ELSE Handled("second", q, resp,
                  <<Session("second", items_second(qbody, q), NoMetadata)>>)

\* src/unnamed/part_003 POST /checkout.
CheckoutTiered ==
  LET q == computeQuote_tiered(qbody)
  IN IF q.threw THEN Handled("tiered", NoQuote, CheckoutFailed("TypeError"), <<>>)
     ELSE Handled("tiered", q, resp,
                  <<Session("tiered", items_tiered(qbody, q), NoMetadata)>>)

\* stripe.checkout.sessions.create settles: the handler answers with the
\* checkout URL, or its catch block answers with the error.
StripeReturns(ok) ==
  /\ pending # <<>>
  /\ ~pending[1].created
  /\ IF ok
     THEN /\ pending' = <<[pending[1] EXCEPT !.created = TRUE]>>
          /\ resp' = Answer("checkout", 200, "", "", NoPayload)
     ELSE /\ pending' = <<>>
          /\ resp' = Answer("checkout", IF pending[1].variant = "fixed" THEN 500 ELSE 400,
                            "Checkout failed", "StripeError", NoPayload)
  /\ UNCHANGED <<bookVars, qvariant, quote>>


\* new Date(1900, 0, 1) as a day number: where year 0 of the Date
\* constructor lands.
Day1900 == -25567

\* [hh, mm] = (timeStr || "10:00").split(":").map(Number), then hh || 10 and
\* mm || 0: minutes since midnight.
TimeOrTen(timeStr) ==
  IF timeStr = NoTime \/ timeStr = BadTime THEN 10 * 60
  ELSE (IF timeStr.hh = 0 THEN 10 ELSE timeStr.hh) * 60 + timeStr.mm

\* server.js toIsoFromDateAndTime: the instant of the ISO string, in minutes
\* since the epoch.
\* Every part of the date has a default (y || 1970, m || 1, d || 1).
toIsoFromDateAndTime_first(dateStr, timeStr) ==
  LET day == IF dateStr = NoDate \/ dateStr = BadDate THEN 0 ELSE dateStr
  IN Int2Num(day * 24 * 60 + TimeOrTen(timeStr))

\* src/unnamed/part_000 toIsoFromDateAndTime: the year has no default; a
\* date that is not numeric makes an Invalid Date, and toISOString() throws
\* (NaN here).  A missing date is year 0, which the constructor reads as
\* 1900.
toIsoFromDateAndTime_webhook(dateStr, timeStr) ==
  IF dateStr = BadDate THEN NaN
  ELSE LET day == IF dateStr = NoDate THEN Day1900 ELSE dateStr
       IN Int2Num(day * 24 * 60 + TimeOrTen(timeStr))

\* payloadForWorkflow, as both webhook handlers build it from the metadata m.
payloadForWorkflow(m, calendarId, startISO, relayAccepted) ==
  LET hours == MathMax(Int2Num(MIN_HOURS), numOfString(m.hours, MIN_HOURS))
  IN [room |-> m.room,
      calendarId |-> calendarId,
      sessionDateTimeISO |-> startISO,
      endDateTimeISO |-> NumAdd(startISO, NumMul(hours, Int2Num(60))),
      hours |-> hours,
      engineer |-> IF m.engineer = "" THEN "Floating" ELSE m.engineer,
      mode |-> m.mode,
      peopleOnCamera |-> numOfString(m.peopleOnCamera, 1),
      extraCameras |-> numOfString(m.extraCameras, 0),
      remoteGuest |-> (m.remoteGuest = "true"),
      teleprompter |-> (m.teleprompter = "true"),
      adClips5 |-> (m.adClips5 = "true"),
      mediaSdOrUsb |-> (m.mediaSdOrUsb = "true"),
      postProduction |-> numOfString(m.postProduction, 0),
      total |-> numOfString(m.total, 0),
      relayAccepted |-> relayAccepted]

EventTypes == {"checkout.session.completed", "payment_intent.succeeded"}
Received(payload) == Answer("webhook", 200, "", "received", payload)

\* The middleware and routes that can handle POST /stripe/webhook, in the
\* order the file registers them: "json" is app.use(express.json()),
\* "webhook" is the route with its express.raw parser.
stack_first == <<"webhook", "json">>
stack_webhook == <<"cors", "json", "webhook">>

\* req.body when the webhook handler runs.  A body parser reads the request
\* stream only if no parser has read it before (req._body): express.json
\* leaves the parsed object, express.raw the Buffer.
RECURSIVE bodyAtWebhook(_, _)
bodyAtWebhook(stack, body) ==
  IF stack = <<>> THEN body
  ELSE IF Head(stack) = "json"
  THEN bodyAtWebhook(Tail(stack), IF body = "stream" THEN "parsed" ELSE body)
  ELSE IF Head(stack) = "webhook"
  THEN (IF body = "stream" THEN "raw" ELSE body)
  ELSE bodyAtWebhook(Tail(stack), body)

\* stripe.webhooks.constructEvent(req.body, sig, secret) returns the event
\* only for the raw bytes Stripe signed; it throws for a parsed object and
\* for a signature that does not match.
constructEvent(body, signed) == body = "raw" /\ signed

\* The answer to a webhook delivery, with what the handler was given.
Delivery(body, signed, answer) == [body |-> body, signed |-> signed] @@ answer
WebhookError == Answer("webhook", 400, "Webhook Error", "", NoPayload)

\* server.js POST /stripe/webhook for a signature-verified event of the
\* given type about the session created last.  calendarConfigured: the CAL_*
\* variable of the room is set; relayAccepted: the workflow accepted the
\* post (the handler does not wait for it).
StripeWebhook_first(type, signed, calendarConfigured, relayAccepted) ==
  /\ pending # <<>>
  /\ pending[1].created
  /\ pending[1].variant = "first"
  /\ LET m == pending[1].metadata
         startISO == toIsoFromDateAndTime_first(m.date, m.startTime)
         body == bodyAtWebhook(stack_first, "stream")
     IN IF ~constructEvent(body, signed)
        THEN /\ resp' = Delivery(body, signed, WebhookError)
             /\ pending' = pending
        ELSE /\ resp' = Delivery(body, signed,
                           IF type = "checkout.session.completed" /\ calendarConfigured
                              /\ IsFinite(startISO)
                           THEN Received(payloadForWorkflow(m, "cal", startISO,
                                                            relayAccepted))
                           ELSE Received(NoPayload))
             /\ pending' = <<>>
  /\ UNCHANGED <<bookVars, qvariant, quote>>

\* src/unnamed/part_000 POST /stripe/webhook: the same, without a try block
\* around the processing; an exception reaches the default error handler of
\* Express, which answers 500.  getCalendarIdForRoom returns "" for a room
\* whose variable is not set.
StripeWebhook_webhook(type, signed, calendarConfigured, relayAccepted) ==
  /\ pending # <<>>
  /\ pending[1].created
  /\ pending[1].variant = "webhook"
  /\ LET m == pending[1].metadata
         startISO == toIsoFromDateAndTime_webhook(m.date, m.startTime)
         body == bodyAtWebhook(stack_webhook, "stream")
     IN IF ~constructEvent(body, signed)
        THEN /\ resp' = Delivery(body, signed, WebhookError)
             /\ pending' = pending
        ELSE /\ resp' = Delivery(body, signed,
                           IF type # "checkout.session.completed" THEN Received(NoPayload)
                           ELSE IF ~IsFinite(startISO)
                           THEN Answer("webhook", 500, "RangeError: Invalid time value",
                                       "", NoPayload)
                           ELSE Received(payloadForWorkflow(m,
                                           IF calendarConfigured THEN "cal" ELSE "",
                                           startISO, relayAccepted)))
             /\ pending' = <<>>
  /\ UNCHANGED <<bookVars, qvariant, quote>>

\* ---- request bodies ----

\* A booking that passes every check, with nothing optional.
GoodBooking ==
  [name |-> "Ann", email |-> "a@x", phone |-> "1",
   customer |-> Contact("Ann", "a@x", "1"),
   room |-> "The Studio", date |-> D1, startTime |-> Time(10, 0),
   videoSession |-> Undef, mixing |-> Undef, mastering |-> Undef,
   beatProduction |-> Undef, vocalSongCount |-> Undef, musicianHours |-> Undef,
   albumArtwork |-> Undef] @@ [NoBody EXCEPT !.hours = JNum(3)]

\* Studio bookings over the priced fields.
PricedBookings ==
  {[GoodBooking EXCEPT !.hours = h, !.mode = m, !.engineerChoice = e,
                       !.extraCameras = x, !.postProduction = pp, !.teleprompter = f] :
     h \in {Undef, JNum(1), JNum(3), JNum(7), JStr("abc")},
     m \in {Undef, JStr("AUDIO_ONLY"), JNum(5)},
     e \in {Undef, JStr("none")},
     x \in {Undef, JNum(2), JNum(-1), JStr("abc")},
     pp \in {Undef, JNum(-1), JNum(1), JNum(MaxCams)},
     f \in {Undef, JBool(TRUE)}}

\* Music bookings.
MusicBookings ==
  {[GoodBooking EXCEPT !.hours = h, !.mode = m, !.vocalSongCount = v,
                       !.musicianHours = mh, !.mixing = f] :
     h \in {Undef, JNum(3), JNum(4), JNum(7)},
     m \in {JStr("MUSIC"), JStr("music")},
     v \in {Undef, JNum(2), JNum(-1)},
     mh \in {Undef, JNum(1)},
     f \in {Undef, JBool(TRUE)}}

\* Bookings over what validateBookingOrThrow looks at.  Today is day 0, a
\* Thursday: DSoon is a Saturday two days out, DSunday three days out.
ValidationBookings ==
  {[GoodBooking EXCEPT !.date = d, !.hours = h, !.startTime = t,
                       !.name = c.name, !.email = c.email, !.phone = c.phone,
                       !.customer = c] :
     d \in {NoDate, BadDate, DSoon, DSunday, D1},
     h \in {Undef, JNum(1), JNum(2), JNum(6), JNum(7), JStr("abc")},
     t \in {NoTime, BadTime, Time(9, 59), Time(10, 0), Time(19, 0), Time(19, 30),
            Time(10, 75), Time(20, 0)},
     c \in Contacts}

\* Bookings over what the webhook reads back from the metadata.
WebhookBookings ==
  {[GoodBooking EXCEPT !.room = r, !.date = d, !.startTime = t, !.remoteGuest = f,
                       !.engineer = g] :
     r \in {NoRoom, "The Lobby", "The Attic"},
     d \in {NoDate, BadDate, D1},
     t \in {NoTime, BadTime, Time(0, 30)},
     f \in {Undef, JBool(TRUE), JStr("false")},
     g \in {Undef, JStr("None")}}

\* The values a form or a JSON client sends for an add-on flag.
FlagValues ==
  {Undef, JBool(TRUE), JStr("true"), JNum(1), JStr("yes"), JStr("on"),
   JBool(FALSE), JNum(0), JStr(""), JStr("false"), JStr("0"), JStr("no")}

\* Bookings over the spellings of mode and of the add-on flags.
FlagBookings ==
  {[GoodBooking EXCEPT !.mode = m, !.teleprompter = f, !.mediaSdOrUsb = g] :
     m \in {Undef, JStr("audio_only"), JStr("podcast")},
     f \in FlagValues,
     g \in {Undef, JStr("no"), JStr("on")}}

BookingBodies ==
  PricedBookings \cup MusicBookings \cup ValidationBookings \cup WebhookBookings
  \cup FlagBookings

\* ---- specification of the checkout and webhook handlers ----

InitBooking ==
  /\ holds = [id \in {} |-> 0]
  /\ nextId = 1
  /\ now = 0
  /\ busy = {}
  /\ pending = <<>>
  /\ consumed = {}
  /\ resp = NoResp
  /\ qbody \in BookingBodies
  /\ qvariant = "none"
  /\ quote = NoQuote

NextBooking ==
  \/ CheckoutFirst
  \/ CheckoutDiscount
  \/ CheckoutFixed
  \/ CheckoutLinear
  \/ CheckoutWebhook
  \/ CheckoutValidating
  \/ QuoteValidating
  \/ CheckoutSecond
  \/ CheckoutTiered
  \/ \E ok \in BOOLEAN : StripeReturns(ok)
  \/ \E type \in EventTypes, signed \in BOOLEAN, cal \in BOOLEAN, relay \in BOOLEAN :
       StripeWebhook_first(type, signed, cal, relay)
  \/ \E type \in EventTypes, signed \in BOOLEAN, cal \in BOOLEAN, relay \in BOOLEAN :
       StripeWebhook_webhook(type, signed, cal, relay)

SpecBooking == InitBooking /\ [][NextBooking]_vars

\* A checkout reached stripe.checkout.sessions.create.
AtPayment == pending # <<>> /\ qvariant # "none"

\* C11: for every checkout that reaches payment-session creation, in every
\* variant, the sum of unit_amount * quantity over the submitted line_items
\* equals 100 * total of the variant's quote for the same body.
C11_LineItemSum ==
  AtPayment =>
    NumStrictEq(AmountTotal(pending[1].line_items), NumMul(Int2Num(100), quote.total))


\* ---- the booking rules, as the validating variant states them ----

\* The handler of the validating variant refused the body with the message
\* of a booking rule / let it pass validation.
RuleMessages ==
  {"Missing date.", "Sundays are not available.",
   "Please pick a date at least 3 days from today.", "Hours must be between 2 and 6.",
   "Missing start time.", "Invalid start time.",
   "Start time must be between 10:00 and 19:00.",
   "Please provide name, email, and phone."}
Rejected ==
  /\ qvariant = "validating"
  /\ resp # NoResp
  /\ resp.status = 400
  /\ resp.detail \in RuleMessages
Accepted == qvariant = "validating" /\ ~Rejected

\* The rule a message belongs to.
RuleOf(message) ==
  CASE message = "Missing date." -> "date"
    [] message = "Sundays are not available." -> "sunday"
    [] message = "Please pick a date at least 3 days from today." -> "lead"
    [] message = "Hours must be between 2 and 6." -> "hours"
    [] message \in {"Missing start time.", "Invalid start time.",
                    "Start time must be between 10:00 and 19:00."} -> "start"
    [] message = "Please provide name, email, and phone." -> "contact"

\* A clock time between 10:00 and 19:00, both included.
InWindow(t) ==
  /\ t.hh \in 0..23
  /\ t.mm \in 0..59
  /\ t.hh * 60 + t.mm >= 10 * 60
  /\ t.hh * 60 + t.mm <= 19 * 60

\* hours is a number (or a numeral) between 2 and 6.
HoursInRange(h) ==
  /\ h.t \in {"number", "string"}
  /\ IsFinite(ToNumber(h))
  /\ h # JStr("")
  /\ NumLe(Int2Num(2), ToNumber(h))
  /\ NumLe(ToNumber(h), Int2Num(6))

\* The first booking rule the body b violates on day today, in the order
\* date missing, Sunday, lead time, hours, start time, contact; "none" if it
\* violates none.
FirstViolated(b, today) ==
  IF b.date = NoDate THEN "date"
  ELSE IF b.date # BadDate /\ (b.date + 4) % 7 = 0 THEN "sunday"
  ELSE IF b.date = BadDate \/ b.date - today < 3 THEN "lead"
  ELSE IF ~HoursInRange(b.hours) THEN "hours"
  ELSE IF ~InWindow(b.startTime) THEN "start"
  ELSE IF b.name = "" \/ b.email = "" \/ b.phone = "" THEN "contact"
  ELSE "none"

\* POST /checkout of the validating variant handled qbody.
CheckedOut ==
  /\ qvariant = "validating"
  /\ ~(resp # NoResp /\ resp.op = "quote")

\* C15: in the validating variant, whenever the body of POST /checkout
\* violates a booking rule (missing date, Sunday, lead time under 3 days,
\* hours outside 2..6, missing or out-of-window start time, missing name,
\* email or phone), stripe.checkout.sessions.create is never called and the
\* response is a 400 whose detail is the message of the violated rule.
C15_ValidationBeforeCharging ==
  (CheckedOut /\ FirstViolated(qbody, now \div MsPerDay) # "none") =>
    /\ pending = <<>>
    /\ resp # NoResp
    /\ resp.status = 400
    /\ resp.detail \in RuleMessages
    /\ RuleOf(resp.detail) = FirstViolated(qbody, now \div MsPerDay)

\* C16: validateBookingOrThrow lets a booking pass only if its startTime is
\* a clock time t with 10:00 <= t <= 19:00; 19:30 and a time with minutes
\* above 59 are refused.
C16_StartTimeWindow == Accepted => InWindow(qbody.startTime)

\* C17: validateBookingOrThrow lets a booking pass only if the date is
\* present, not a Sunday and at least 3 days after today and hours is a
\* number between 2 and 6; a booking it refuses is refused with the message
\* of the first rule it violates, in the order date missing, Sunday, lead
\* time, hours, start time, contact.
C17_DateAndHoursRules ==
  /\ Accepted =>
       /\ qbody.date \notin {NoDate, BadDate}
       /\ (qbody.date + 4) % 7 # 0
       /\ qbody.date - (now \div MsPerDay) >= 3
       /\ HoursInRange(qbody.hours)
  /\ Rejected => RuleOf(resp.detail) = FirstViolated(qbody, now \div MsPerDay)


\* C18: in every variant with POST /stripe/webhook, every signature-verified
\* event is answered 200 {received: true}, whatever the event type, the
\* metadata (date or startTime missing or malformed, unknown room,
\* calendar not configured) and the outcome of the relay.
C18_WebhookAcknowledged ==
  (resp # NoResp /\ resp.op = "webhook" /\ resp.signed) =>
    (resp.status = 200 /\ resp.detail = "received")


\* The webhook built a payload for the workflow from the metadata of the
\* session that checkout created for qbody.
PayloadBuilt == resp # NoResp /\ resp.op = "webhook" /\ resp.payload # NoPayload

\* The count the quote priced for a body field: Math.max(0, num(v, 0)).
PricedCount(v) == MathMax(Int2Num(0), num(v, 0))

\* C19: the payload the webhook builds from the session metadata has hours
\* and total equal to the quote's for the same body, each add-on flag true
\* exactly when the add-on was priced, and extraCameras and postProduction
\* equal to the counts that were priced, negative and non-numeric counts
\* included.
C19_MetadataRoundTrip ==
  PayloadBuilt =>
    /\ NumStrictEq(resp.payload.hours, quote.hours)
    /\ NumStrictEq(resp.payload.total, quote.total)
    /\ resp.payload.teleprompter = Truthy(qbody.teleprompter)
    /\ resp.payload.remoteGuest = Truthy(qbody.remoteGuest)
    /\ resp.payload.adClips5 = Truthy(qbody.adClips5)
    /\ resp.payload.mediaSdOrUsb = Truthy(qbody.mediaSdOrUsb)
    /\ NumStrictEq(resp.payload.extraCameras, PricedCount(qbody.extraCameras))
    /\ NumStrictEq(resp.payload.postProduction, PricedCount(qbody.postProduction))


\* C21: no calculator throws: in every variant a quote is returned for
\* every body, also when mode, engineer or engineerChoice is a truthy value
\* that is not a string.
C21_CalculatorNeverThrows == (qvariant # "none") => ~quote.threw


\* What POST /quote of a variant computes for a body.
QuoteOf(variant, body) ==
  CASE variant = "first" -> computeQuote_first(body)
    [] variant = "discount" -> computeTotals_discount(body)
    [] variant = "fixed" -> computeTotals_fixed(body)
    [] variant = "linear" -> computeQuote_linear(body)
    [] variant = "webhook" -> computeQuote_webhook(body)
    [] variant = "studio" -> computeStudioQuote(body)
    [] variant = "second" -> computeQuote_second(body)
    [] variant = "hold" -> computeQuote_hold(body)
    [] variant = "tiered" -> computeQuote_tiered(body)
    [] variant = "validating" -> computeQuote_validating(body)

\* The total and the breakdown of a quote.
Priced(q) ==
  <<q.total, q.baseSubtotal, q.engineerSubtotal, q.extrasSession, q.extraCamsSubtotal,
    q.postProd>>

\* C23: in every calculator two requests that differ only in peopleOnCamera
\* get the same total and the same breakdown, and postProd does not depend
\* on what makes up the reported totalCams (peopleOnCamera, extraCameras).
C23_PeopleOnCameraNeverPriced ==
  Quoted =>
    /\ \A p \in {Undef, JNum(1), JNum(3)} :
         Priced(QuoteOf(qvariant, [qbody EXCEPT !.peopleOnCamera = p])) = Priced(quote)
    /\ \A p \in {Undef, JNum(3)}, x \in {Undef, JNum(2)} :
         QuoteOf(qvariant, [qbody EXCEPT !.peopleOnCamera = p,
                                         !.extraCameras = x]).postProd = quote.postProd


\* The mode of the enum a body's mode stands for.
KnownMode(m) ==
  IF m.t = "string" /\ toUpperCase(m.s) = "AUDIO_ONLY" THEN "AUDIO_ONLY" ELSE "ONE_CAMERA"
\* How a base line item may spell a mode.
ModeLabels(mode) ==
  IF mode = "AUDIO_ONLY" THEN {JStr("AUDIO_ONLY"), JStr("Audio Only")}
  ELSE {JStr("ONE_CAMERA"), JStr("One Camera"), JStr("ONE CAMERA")}
IsStudioMode(m) ==
  m.t = "undefined" \/ (m.t = "string" /\ toUpperCase(m.s) # "MUSIC")

\* C22: whatever the spelling of mode, the quote is priced as for the mode
\* of the enum it stands for ('audio_only' as AUDIO_ONLY, an unknown value
\* as ONE_CAMERA), a quote that reports its mode reports that mode, and so
\* does the name of the base line item.
C22_ModeNormalization ==
  (AtPayment /\ IsStudioMode(qbody.mode)) =>
    LET mode == KnownMode(qbody.mode)
        base == pending[1].line_items[1]
    IN /\ Priced(quote) = Priced(QuoteOf(qvariant, [qbody EXCEPT !.mode = JStr(mode)]))
       /\ quote.reportsHours => quote.mode = JStr(mode)
       /\ base.name = "Studio booking" => base.label \in ModeLabels(mode)


\* The add-on flags, their fees and the names of their line items.
FlagFee == [teleprompter |-> 25, remoteGuest |-> 10, adClips5 |-> 150, mediaSdOrUsb |-> 50]
FlagItem ==
  [teleprompter |-> "Teleprompter", remoteGuest |-> "Remote Guest",
   adClips5 |-> "+5 Ad Clips", mediaSdOrUsb |-> "Media to SD/USB"]
FlagOn == {JBool(TRUE), JStr("true"), JNum(1), JStr("yes"), JStr("on")}
FlagOff == {JBool(FALSE), JNum(0), JStr(""), JStr("false"), JStr("0"), JStr("no")}
HasItem(items, name) == \E i \in 1..Len(items) : items[i].name = name

\* C30: an add-on flag sent as true, "true", 1, "yes" or "on" adds the fee
\* of its add-on to the quote; sent as false, 0, "", "false", "0" or "no" it
\* adds nothing to the quote and no line item to the checkout.
C30_FlagNormalization ==
  (AtPayment /\ IsStudioMode(qbody.mode)) =>
    \A f \in DOMAIN FlagFee :
      LET without == QuoteOf(qvariant, [qbody EXCEPT ![f] = Undef])
      IN /\ (qbody[f] \in FlagOn /\ IsFinite(without.total)) =>
              /\ NumStrictEq(quote.extrasSession,
                             NumAdd(without.extrasSession, Int2Num(FlagFee[f])))
              /\ NumStrictEq(quote.total, NumAdd(without.total, Int2Num(FlagFee[f])))
         /\ qbody[f] \in FlagOff =>
              /\ Priced(quote) = Priced(without)
              /\ ~HasItem(pending[1].line_items, FlagItem[f])


\* C27: in the discount variant the 'Studio booking' and 'Studio Engineer'
\* line items of the hosted checkout have the clamped hours of computeTotals
\* as their quantity, and the line items add up to base.total.
C27_DiscountHoursAgree ==
  (AtPayment /\ qvariant = "discount") =>
    LET items == pending[1].line_items
    IN /\ \A i \in 1..Len(items) :
            items[i].name \in {"Studio booking", "Studio Engineer"} =>
              NumStrictEq(items[i].quantity, quote.hours)
       /\ NumStrictEq(AmountTotal(items), NumMul(Int2Num(100), quote.total))


\* C28: in the calculators that price post-production from the table
\* {0:0, 1:200, 2:250, 3:300, 4:350}, asking for more cameras in
\* postProduction never lowers postProd.
C28_PostProdMonotone ==
  (Quoted /\ qvariant \in {"fixed", "discount"}
     /\ qbody.postProduction.t = "number" /\ qbody.postProduction.n >= 0) =>
    \A more \in qbody.postProduction.n .. MaxCams + 1 :
      NumLe(quote.postProd,
            QuoteOf(qvariant, [qbody EXCEPT !.postProduction = JNum(more)]).postProd)


\* The checkouts whose calculator prices post-production as 200 for the
\* first camera and 100 for each further one.
TieredCheckouts == {"first", "webhook", "validating", "second", "tiered"}
PostProdNames ==
  {"Post Production - first cam", "Post Production - addl cam(s)", "Post Production (cams)"}
IsPostProdItem(item) == item.name \in PostProdNames
\* Math.max(0, num(b.postProduction, 0)): the cameras to edit.
CamsToEdit(b) == MathMax(Int2Num(0), num(b.postProduction, 0)).v
TieredFee(cams) == IF cams = 0 THEN 0 ELSE 200 + (cams - 1) * 100

\* C24: where post-production is 200 for the first camera plus 100 for each
\* further one, postProd is 0 for no camera to edit and 200 + (cams - 1) * 100
\* for cams >= 1, and the post-production line items of the checkout add up
\* to that amount.
C24_TieredPostProd ==
  (AtPayment /\ qvariant \in TieredCheckouts /\ IsStudioMode(qbody.mode)) =>
    LET fee == TieredFee(CamsToEdit(qbody))
    IN /\ quote.postProd = Int2Num(fee)
       /\ AmountTotal(SelectSeq(pending[1].line_items, IsPostProdItem)) = Int2Num(fee * 100)

\* A first-variant checkout for MaxCams cameras to edit: both post-production
\* lines are submitted.
C24_Witness ==
  /\ AtPayment
  /\ qvariant = "first"
  /\ qbody.postProduction = JNum(MaxCams)
  /\ HasItem(pending[1].line_items, "Post Production - addl cam(s)")
  /\ quote.postProd = Int2Num(TieredFee(MaxCams))


\* The place of a line item in the order base session, engineer, extra
\* cameras, flat add-ons, post-production.
Rank(item) ==
  CASE item.name = "Studio booking" -> 1
    [] item.name = "Studio Engineer" -> 2
    [] item.name = "Extra Camera(s)" -> 3
    [] item.name \in {FlagItem[f] : f \in DOMAIN FlagFee} \cup {"Extras (session)"} -> 4
    [] OTHER -> 5
ItemsOfRank(items, r) == {i \in 1..Len(items) : Rank(items[i]) = r}

\* C25: every itemizing checkout submits its line items in the order base
\* session (quantity = hours), engineer, extra cameras (quantity = count),
\* flat add-ons, post-production, with one line item per nonzero component
\* (post-production a single item of quantity 1) and none for a zero one.
C25_LineItemOrder ==
  (AtPayment /\ qvariant # "fixed" /\ IsStudioMode(qbody.mode)) =>
    LET items == pending[1].line_items
        extraCams == MathMax(Int2Num(0), num(qbody.extraCameras, 0))
    IN /\ \A i, j \in 1..Len(items) : i < j => Rank(items[i]) <= Rank(items[j])
       /\ \A i \in ItemsOfRank(items, 1) : items[i].quantity = quote.hours
       /\ Cardinality(ItemsOfRank(items, 2))
            = IF NumTruthy(quote.engineerSubtotal) THEN 1 ELSE 0
       /\ Cardinality(ItemsOfRank(items, 3)) = IF NumTruthy(extraCams) THEN 1 ELSE 0
       /\ \A i \in ItemsOfRank(items, 3) : items[i].quantity = extraCams
       /\ Cardinality(ItemsOfRank(items, 5)) = IF NumTruthy(quote.postProd) THEN 1 ELSE 0
       /\ \A i \in ItemsOfRank(items, 5) : items[i].quantity = Int2Num(1)


\* C26: in every variant with POST /stripe/webhook the handler is given the
\* raw body: no JSON body parser has run on the request before the
\* express.raw parser of the route.
C26_WebhookBodyRaw ==
  (resp # NoResp /\ resp.op = "webhook") => resp.body = "raw"


\* ------------------------------------------------------------------------
\* Part IV.  The discount variant: promotion codes
\* ------------------------------------------------------------------------
\* Money is in whole cents here; `off` is kept in hundredths of a cent, so
\* that the two Math.round calls of applyDiscount round what the code rounds.
\* The binary rounding error of the floating-point operations is not modelled.

\* Math.round(n / d) for d > 0: halves round up.
MathRound(n, d) == (2 * n + d) \div (2 * d)

\* A Stripe promotion code with its coupon; findPromotionCode returning null.
Promotion(id, active, amount_off, percent_off) ==
  [id |-> id, code |-> "SAVE", active |-> active,
   coupon |-> [amount_off |-> amount_off, percent_off |-> percent_off]]
NoPromotion == Promotion("", FALSE, 0, 0)

\* server.js applyDiscount(original, promotion).
applyDiscount(original, promotion) ==
  IF promotion = NoPromotion
  THEN [totalAfter |-> original, amount |-> 0, code |-> "", promo |-> ""]
  ELSE LET coup == promotion.coupon
           off == IF coup.amount_off # 0 THEN coup.amount_off * 100
                  ELSE IF coup.percent_off # 0 THEN original * coup.percent_off
                  ELSE 0
           rounded == MathRound(original * 100 - off, 100)
       IN [totalAfter |-> IF rounded < 0 THEN 0 ELSE rounded,
           amount |-> MathRound(off, 100),
           code |-> promotion.code, promo |-> promotion.id]

\* if (!promo || promo.active === false) promo = null, after the lookup that
\* runs only for a body with a couponCode.
PromotionFor(b, found, lookup) ==
  IF Truthy(b.couponCode) /\ lookup /\ found.active THEN found ELSE NoPromotion

\* base.total in cents.
TotalCents(base) == base.total.v * 100

\* The answer of the two discount endpoints: the total before and after
\* the discount, the discount, and the promotion that was applied.
DiscountAnswer(op, status, original, d, promotion) ==
  [op |-> op, status |-> status, original |-> original, totalAfter |-> d.totalAfter,
   amount |-> d.amount, promotion |-> promotion]

\* server.js POST /quote-with-discount.  found is what Stripe lists for the
\* code; the handler keeps nothing between its awaits, so it is one step.
QuoteWithDiscount(found, stripeConfigured) ==
  LET b == qbody
      base == computeTotals_discount(b)
      promo == PromotionFor(b, found, stripeConfigured)
  IN Handled("discount", base,
             DiscountAnswer("quote-with-discount", 200, TotalCents(base),
                            applyDiscount(TotalCents(base), promo), promo),
             <<>>)

\* server.js POST /pay/create-intent: the PaymentIntent is created for
\* Math.max(0, Math.round(totalAfter * 100)) cents.
PayCreateIntent(found, stripeConfigured, ok) ==
  LET b == qbody
      base == computeTotals_discount(b)
      promo == PromotionFor(b, found, TRUE)
      d == applyDiscount(TotalCents(base), promo)
      amount == IF d.totalAfter < 0 THEN 0 ELSE d.totalAfter
  IN IF ~stripeConfigured
     THEN Handled("discount", NoQuote,
                  DiscountAnswer("create-intent", 400, 0, applyDiscount(0, NoPromotion),
                                 NoPromotion), <<>>)
     ELSE IF ~ok
     THEN Handled("discount", base,
                  DiscountAnswer("create-intent", 400, TotalCents(base), d, promo), <<>>)
     ELSE Handled("discount", base,
                  DiscountAnswer("create-intent", 200, TotalCents(base), d, promo),
                  <<[variant |-> "discount", amount |-> amount, created |-> TRUE]>>)

\* Coupons of a fixed amount (cents) and of a percentage, active or not.
Promotions ==
  {Promotion("promo_1", a, off, 0) : a \in BOOLEAN, off \in {500, 10000, 100000}}
  \cup {Promotion("promo_2", a, 0, pct) : a \in BOOLEAN, pct \in {10, 33, 100}}
  \cup {NoPromotion}

DiscountBodies ==
  {[couponCode |-> c] @@ [NoBody EXCEPT !.hours = h, !.mode = m, !.engineerChoice = e,
                                        !.postProduction = pp] :
     c \in {Undef, JStr("SAVE")},
     h \in {Undef, JNum(1), JNum(3), JNum(7)},
     m \in {Undef, JStr("AUDIO_ONLY")},
     e \in {Undef, JStr("none")},
     pp \in {Undef, JNum(2)}}

InitDiscount ==
  /\ holds = [id \in {} |-> 0]
  /\ nextId = 1
  /\ now = 0
  /\ busy = {}
  /\ pending = <<>>
  /\ consumed = {}
  /\ resp = NoResp
  /\ qbody \in DiscountBodies
  /\ qvariant = "none"
  /\ quote = NoQuote

NextDiscount ==
  \/ \E found \in Promotions, stripeConfigured \in BOOLEAN :
       QuoteWithDiscount(found, stripeConfigured)
  \/ \E found \in Promotions, stripeConfigured \in BOOLEAN, ok \in BOOLEAN :
       PayCreateIntent(found, stripeConfigured, ok)

SpecDiscount == InitDiscount /\ [][NextDiscount]_vars

Discounted == resp # NoResp /\ resp.status = 200

\* C29: the discounted total is between 0 and the original total and
\* totalAfter + discount.amount is the original total; without a promotion
\* (none found, or an inactive one) totalAfter is the original total and the
\* discount is 0; and /pay/create-intent charges what /quote-with-discount
\* previews for the same body and promotion.
C29_DiscountArithmetic ==
  Discounted =>
    /\ 0 <= resp.totalAfter /\ resp.totalAfter <= resp.original
    /\ resp.totalAfter + resp.amount = resp.original
    /\ resp.promotion = NoPromotion => (resp.totalAfter = resp.original /\ resp.amount = 0)
    /\ ~resp.promotion.active => resp.promotion = NoPromotion
    /\ resp.totalAfter = applyDiscount(resp.original, resp.promotion).totalAfter
    /\ resp.op = "create-intent" =>
         /\ pending # <<>>
         /\ pending[1].amount = resp.totalAfter

====
